---------------------------- MODULE Spec2Model ----------------------------
(***************************************************************************)
(* Pathfinder context/path navigation engine                               *)
(* (src/pathfinder/core/models.py, src/pathfinder/core/managers.py).       *)
(*                                                                         *)
(* The state is one ContextManager, the node objects its contexts refer    *)
(* to (a heap, so that two contexts can hold the same object), the wall    *)
(* clock read by time.time(), the three JSON documents of the storage      *)
(* directory, and the frame of a replay_path call in progress.             *)
(*                                                                         *)
(* Numbers that the code compares as floats (priority, relevance_score)    *)
(* are kept in tenths: 0.5 is 5, an access_count of 2 is 20.               *)
(***************************************************************************)
EXTENDS Integers, Sequences, FiniteSets, TLC

(* ------------------------------ bounds --------------------------------- *)
MaxContexts == 2
MaxPaths == 2
MaxNodeIds == 2
MaxObjects == 2
MaxTransitions == 2
MaxTime == 2
MaxAccess == 2
MaxCarry == 1
MaxLifetimes == 2
MaxRows == 2
MaxRequests == 2
MaxFocus == 1
MaxRelationships == 1
AnalysisContexts == 12
MaxAppended == 2
MaxFreeVisits == 4
FreeContexts == 3

(* --------------------------- basic values ------------------------------ *)
\* Python's None for the Optional[str] ids.
None == 0

ContextIds == 1..MaxContexts
PathIds == 1..MaxPaths
NodeIds == 1..MaxNodeIds
Refs == 1..MaxObjects

\* PriorityType: the auto() values and their names.
RECENCY == 1
FREQUENCY == 2
RELEVANCE == 3
CENTRALITY == 4
CUSTOM == 5
PriorityType == {RECENCY, FREQUENCY, RELEVANCE, CENTRALITY, CUSTOM}

SchemeName(s) ==
    CASE s = RECENCY -> "RECENCY"
      [] s = FREQUENCY -> "FREQUENCY"
      [] s = RELEVANCE -> "RELEVANCE"
      [] s = CENTRALITY -> "CENTRALITY"
      [] s = CUSTOM -> "CUSTOM"

SchemeNames == {SchemeName(s) : s \in PriorityType}

\* PriorityType[name]; only applied to a known name (an unknown one raises).
SchemeByName(n) == CHOOSE s \in PriorityType : SchemeName(s) = n

ToTenths(x) == x * 10

\* relevance_score values the callers supply, in tenths (0.0, 0.5).
RelevanceValues == {0, 5}

(* ------------------------- sequence helpers ---------------------------- *)
Range(s) == {s[i] : i \in DOMAIN s}

IsPrefix(s, t) == Len(s) <= Len(t) /\ SubSeq(t, 1, Len(s)) = s

SeqsUpTo(S, n) == UNION {[1..k -> S] : k \in 0..n}

\* list(a_set): some order of the members.
RECURSIVE SetToSeq(_)
SetToSeq(S) ==
    IF S = {} THEN << >>
    ELSE LET x == CHOOSE y \in S : TRUE
         IN <<x>> \o SetToSeq(S \ {x})

\* set(a_list)
SeqToSet(s) == Range(s)

EmptyMap == << >>

(* ------------------------------ state ---------------------------------- *)
VARIABLES
    contexts,            \* ContextManager.contexts: id -> Context
    heap,                \* the ContextualNode objects: reference -> fields
    paths,               \* ContextManager.paths: id -> PathRoute
    current_context_id,  \* ContextManager.current_context_id
    active_path_id,      \* ContextManager.active_path_id
    now,                 \* what time.time() returns
    disk,                \* contexts.json, paths.json, state.json
    replay,              \* the frame of replay_path
    error,               \* what the last call raised (NoError when it returned)
    lifetime,            \* how many managers have been built on the storage directory
    requests             \* the HTTP host's switch requests inside switch_context

vars == <<contexts, heap, paths, current_context_id, active_path_id, now,
          disk, replay, error, lifetime, requests>>


(* ------------------------- ContextualNode ------------------------------ *)
\* The alt text __post_init__ derives from the display name and the labels.
DefaultAltText == "name: labels node"

\* ContextualNode.update_priority(scheme): no branch for CENTRALITY, CUSTOM.
UpdatePriority(node, scheme) ==
    CASE scheme = RECENCY -> [node EXCEPT !.priority = ToTenths(node.last_accessed)]
      [] scheme = FREQUENCY -> [node EXCEPT !.priority = ToTenths(node.access_count)]
      [] scheme = RELEVANCE -> [node EXCEPT !.priority = node.relevance_score]
      [] OTHER -> node

\* ContextualNode.__post_init__: update_priority() under its default scheme,
\* then the default alt text when none was given.
NodePostInit(node) ==
    LET n1 == UpdatePriority(node, RECENCY)
    IN [n1 EXCEPT !.alt_text = IF @ = "" THEN DefaultAltText ELSE @]

\* ContextualNode(uuid=..., labels=..., properties=..., relevance_score=...)
\* built at time t: the other fields take their dataclass defaults.
NewNode(uuid, relevance, t) ==
    NodePostInit([uuid |-> uuid, access_count |-> 0, last_accessed |-> t,
                  relevance_score |-> relevance, notes |-> << >>, flags |-> {},
                  priority |-> 0, alt_text |-> ""])

\* An access that stamps the time but does not count.
AccessUncounted(node, t) ==
    UpdatePriority([node EXCEPT !.last_accessed = t], RECENCY)

\* ContextualNode.access() at time t
Access(node, t) ==
    UpdatePriority([node EXCEPT !.access_count = @ + 1, !.last_accessed = t],
                   RECENCY)

\* ContextualNode.to_dict
NodeToDict(node) ==
    [uuid |-> node.uuid,
     metadata |-> [access_count |-> node.access_count,
                   last_accessed |-> node.last_accessed,
                   relevance_score |-> node.relevance_score,
                   notes |-> node.notes,
                   flags |-> SetToSeq(node.flags),
                   priority |-> node.priority,
                   alt_text |-> node.alt_text]]

\* ContextualNode.from_dict: the constructor (with its __post_init__) on the
\* stored fields, then the flags.
NodeFromDict(data) ==
    LET node == NodePostInit(
                  [uuid |-> data.uuid,
                   access_count |-> data.metadata.access_count,
                   last_accessed |-> data.metadata.last_accessed,
                   relevance_score |-> data.metadata.relevance_score,
                   notes |-> data.metadata.notes,
                   flags |-> {},
                   priority |-> data.metadata.priority,
                   alt_text |-> data.metadata.alt_text])
    IN [node EXCEPT !.flags = SeqToSet(data.metadata.flags)]

(* ------------------------------ Context -------------------------------- *)
MapPut(f, k, v) == [x \in (DOMAIN f) \cup {k} |-> IF x = k THEN v ELSE f[x]]

\* The text of accessibility_description, by what it states: the node count,
\* the focus count and, in the form update_accessibility_description writes,
\* the names of the focus nodes found in the node map.
NoText == [kind |-> "empty", nodes |-> 0, focus |-> 0, focus_text |-> << >>]

\* Context.__post_init__
ContextPostInit(c) ==
    IF c.accessibility_description = NoText
    THEN [c EXCEPT !.accessibility_description =
            [kind |-> "initial", nodes |-> Cardinality(DOMAIN c.nodes),
             focus |-> Len(c.focus_nodes), focus_text |-> << >>]]
    ELSE c

\* Context.update_accessibility_description
UpdateAccessibilityDescription(c) ==
    [c EXCEPT !.accessibility_description =
        [kind |-> "full", nodes |-> Cardinality(DOMAIN c.nodes),
         focus |-> Len(c.focus_nodes),
         focus_text |-> SelectSeq(c.focus_nodes, LAMBDA id : id \in DOMAIN c.nodes)]]

\* Context(id=..., name=..., description=...) built at time t
NewContext(id, name, t) ==
    ContextPostInit([id |-> id, name |-> name, description |-> "A context",
                     nodes |-> EmptyMap,
                     relationships |-> EmptyMap, focus_nodes |-> << >>,
                     created_at |-> t, last_accessed |-> t,
                     priority_scheme |-> RECENCY,
                     custom_priority_function |-> FALSE, tags |-> {},
                     accessibility_description |-> NoText])

\* An add_node that leaves the accessibility description as it is.
ContextAddNodeSilent(c, uuid, ref) == [c EXCEPT !.nodes = MapPut(@, uuid, ref)]

\* Context.add_node: the node map holds a reference to the node object.
ContextAddNode(c, uuid, ref) ==
    UpdateAccessibilityDescription([c EXCEPT !.nodes = MapPut(@, uuid, ref)])

\* Context.add_relationship(source_id, target_id, rel_type) with one rel_type:
\* the entry appended to relationships[source_id][rel_type]. Its alt text names
\* the two nodes when the context holds both.
ContextAddRelationship(c, source_id, target_id) ==
    LET sofar == IF source_id \in DOMAIN c.relationships
                 THEN c.relationships[source_id] ELSE << >>
        entry == [target |-> target_id,
                  named |-> source_id \in DOMAIN c.nodes /\ target_id \in DOMAIN c.nodes]
    IN UpdateAccessibilityDescription(
           [c EXCEPT !.relationships = MapPut(@, source_id, Append(sofar, entry))])

\* A set_focus that keeps only the ids the context holds a node for.
ContextSetFocusKnownOnly(c, node_ids) ==
    UpdateAccessibilityDescription(
        [c EXCEPT !.focus_nodes = SelectSeq(node_ids, LAMBDA id : id \in DOMAIN c.nodes)])

\* Context.set_focus(node_ids)
ContextSetFocus(c, node_ids) ==
    UpdateAccessibilityDescription([c EXCEPT !.focus_nodes = node_ids])

\* Context.to_dict; hp is the heap the node references point into.
ContextToDict(c, hp) ==
    [id |-> c.id, name |-> c.name, description |-> c.description,
     nodes |-> [k \in DOMAIN c.nodes |-> NodeToDict(hp[c.nodes[k]])],
     relationships |-> c.relationships,
     focus_nodes |-> c.focus_nodes,
     created_at |-> c.created_at,
     last_accessed |-> c.last_accessed,
     priority_scheme |-> SchemeName(c.priority_scheme),
     tags |-> SetToSeq(c.tags),
     accessibility_description |-> c.accessibility_description]

\* Context.from_dict; the node map of the result holds the rebuilt node
\* objects themselves (LoadData places them on the heap).
ContextFromDict(data) ==
    LET c == ContextPostInit(
               [id |-> data.id, name |-> data.name, description |-> data.description,
                nodes |-> EmptyMap, relationships |-> EmptyMap,
                focus_nodes |-> data.focus_nodes,
                created_at |-> data.created_at,
                last_accessed |-> data.last_accessed,
                priority_scheme |-> SchemeByName(data.priority_scheme),
                custom_priority_function |-> FALSE,
                tags |-> SeqToSet(data.tags),
                accessibility_description |-> data.accessibility_description])
    IN [c EXCEPT !.nodes = [k \in DOMAIN data.nodes |-> NodeFromDict(data.nodes[k])],
                 !.relationships = data.relationships]

\* A context with its node references replaced by the objects they point to.
ContextView(c, hp) == [c EXCEPT !.nodes = [k \in DOMAIN c.nodes |-> hp[c.nodes[k]]]]

(* ---------------------- ContextTransition, PathRoute ------------------- *)
DefaultReason == <<"Manual switch">>
ReplayReason(name) == <<"Replaying path", name>>

\* A transition built with its two ends exchanged.
NewTransitionReversed(from, to, reason, carried, t) ==
    [from_context_id |-> to, to_context_id |-> from, timestamp |-> t,
     reason |-> reason, carried_nodes |-> carried, notes |-> ""]

\* ContextTransition(from_context_id, to_context_id, reason, carried_nodes)
NewTransition(from, to, reason, carried, t) ==
    [from_context_id |-> from, to_context_id |-> to, timestamp |-> t,
     reason |-> reason, carried_nodes |-> carried, notes |-> ""]

\* A to_dict that leaves the carried node ids out of the stored transition.
TransitionToDictNoCarry(tr) ==
    [from_context_id |-> tr.from_context_id, to_context_id |-> tr.to_context_id,
     timestamp |-> tr.timestamp, reason |-> tr.reason,
     carried_nodes |-> << >>, notes |-> tr.notes]

\* ContextTransition.to_dict / from_dict
TransitionToDict(tr) ==
    [from_context_id |-> tr.from_context_id, to_context_id |-> tr.to_context_id,
     timestamp |-> tr.timestamp, reason |-> tr.reason,
     carried_nodes |-> tr.carried_nodes, notes |-> tr.notes]

TransitionFromDict(data) ==
    [from_context_id |-> data.from_context_id, to_context_id |-> data.to_context_id,
     timestamp |-> data.timestamp, reason |-> data.reason,
     carried_nodes |-> data.carried_nodes, notes |-> data.notes]

\* The text of a path's accessibility_description: the count it states.
NoPathText == [kind |-> "empty", transitions |-> 0]
PathText(p) == [kind |-> "text", transitions |-> Len(p.transitions)]

\* PathRoute.__post_init__
PathPostInit(p) ==
    IF p.accessibility_description = NoPathText
    THEN [p EXCEPT !.accessibility_description = PathText(p)]
    ELSE p

\* PathRoute(id=..., name=..., description=...) built at time t
NewPath(id, name, t) ==
    PathPostInit([id |-> id, name |-> name, description |-> "A path",
                  transitions |-> << >>,
                  created_at |-> t, last_updated |-> t, tags |-> {},
                  accessibility_description |-> NoPathText])

\* An add_transition that inserts at the front of the list.
AddTransitionFirst(p, tr, t) ==
    LET p1 == [p EXCEPT !.transitions = <<tr>> \o @, !.last_updated = t]
    IN [p1 EXCEPT !.accessibility_description = PathText(p1)]

\* PathRoute.add_transition at time t
AddTransition(p, tr, t) ==
    LET p1 == [p EXCEPT !.transitions = Append(@, tr), !.last_updated = t]
    IN [p1 EXCEPT !.accessibility_description = PathText(p1)]

\* PathRoute.to_dict
PathToDict(p) ==
    [id |-> p.id, name |-> p.name, description |-> p.description,
     transitions |-> [i \in DOMAIN p.transitions |-> TransitionToDict(p.transitions[i])],
     created_at |-> p.created_at, last_updated |-> p.last_updated,
     tags |-> SetToSeq(p.tags),
     accessibility_description |-> p.accessibility_description]

\* PathRoute.from_dict: the constructor, then the transitions appended to the
\* list directly (not through add_transition).
PathFromDict(data) ==
    LET p == PathPostInit(
               [id |-> data.id, name |-> data.name, description |-> data.description,
                transitions |-> << >>,
                created_at |-> data.created_at, last_updated |-> data.last_updated,
                tags |-> SeqToSet(data.tags),
                accessibility_description |-> data.accessibility_description])
    IN [p EXCEPT !.transitions =
            [i \in DOMAIN data.transitions |-> TransitionFromDict(data.transitions[i])]]

(* --------------------------- ContextManager ---------------------------- *)
MapRange(f) == {f[x] : x \in DOMAIN f}

\* The node objects some context still refers to; the others are freed.
Referenced(ctxs) == UNION {MapRange(ctxs[c].nodes) : c \in DOMAIN ctxs}
Collect(hp, ctxs) == [r \in (DOMAIN hp) \cap Referenced(ctxs) |-> hp[r]]

\* str(uuid.uuid4()): an id no stored entity has yet.
FreshId(used) == Cardinality(used) + 1

\* What a call raises: the ValueError of an unknown context or path id.
NoError == "no error"
ContextNotFound == "ValueError: Context does not exist"
PathNotFound == "ValueError: Path does not exist"
ContextsNotFound == "ValueError: One or both contexts do not exist"

\* The frame of replay_path: the path, the position of the loop's iterator in
\* path.transitions, what the call found when it started, and what it did.
NoReplay ==
    [active |-> FALSE, path_id |-> None, index |-> 0, length |-> 0,
     before |-> None, callback |-> FALSE, switched |-> << >>, called |-> << >>]

\* A recording step that writes the transition into every stored path.
RecordTransitionEverywhere(ps, active, tr, t) ==
    [p \in DOMAIN ps |-> AddTransition(ps[p], tr, t)]

\* switch_context, lines 66-68: the transition goes to the active path.
RecordTransition(ps, active, tr, t) ==
    IF active # None /\ active \in DOMAIN ps
    THEN [ps EXCEPT ![active] = AddTransition(@, tr, t)]
    ELSE ps

\* A carry that puts a copy of the node object into the target context.
CarryOneCopy(st, src, dst, node_id, t) ==
    IF node_id \in DOMAIN st.contexts[src].nodes
    THEN LET ref == st.contexts[src].nodes[node_id]
             hp1 == [st.heap EXCEPT ![ref] = Access(@, t)]
             copy == CHOOSE r \in 1..(Cardinality(DOMAIN hp1) + 1) : r \notin DOMAIN hp1
             c1 == [st.contexts EXCEPT ![src].last_accessed = t]
         IN [contexts |-> [c1 EXCEPT ![dst] = ContextAddNode(@, hp1[ref].uuid, copy)],
             heap |-> MapPut(hp1, copy, hp1[ref])]
    ELSE st

\* switch_context, lines 73-76, for one id of carry_nodes: get_node on the
\* current context (which records an access), then add_node of that very
\* object on the target context.
CarryOne(st, src, dst, node_id, t) ==
    IF node_id \in DOMAIN st.contexts[src].nodes
    THEN LET ref == st.contexts[src].nodes[node_id]
             hp1 == [st.heap EXCEPT ![ref] = Access(@, t)]
             c1 == [st.contexts EXCEPT ![src].last_accessed = t]
         IN [contexts |-> [c1 EXCEPT ![dst] = ContextAddNode(@, hp1[ref].uuid, ref)],
             heap |-> hp1]
    ELSE st

RECURSIVE CarryNodes(_, _, _, _, _)
CarryNodes(st, src, dst, ids, t) ==
    IF ids = << >> THEN st
    ELSE CarryNodes(CarryOne(st, src, dst, Head(ids), t), src, dst, Tail(ids), t)

\* switch_context past its existence check: what the manager holds afterwards.
SwitchContextResult(context_id, reason, carry_nodes) ==
    LET tr == NewTransition(current_context_id, context_id, reason, carry_nodes, now)
        st0 == [contexts |-> contexts, heap |-> heap]
        st1 == IF carry_nodes # << >> /\ current_context_id # None
                  /\ current_context_id \in DOMAIN contexts
               THEN CarryNodes(st0, current_context_id, context_id, carry_nodes, now)
               ELSE st0
        cs == [st1.contexts EXCEPT ![context_id].last_accessed = now]
    IN [contexts |-> cs, heap |-> Collect(st1.heap, cs),
        paths |-> RecordTransition(paths, active_path_id, tr, now),
        current_context_id |-> context_id]

\* The bounds of the model, as a guard on a switch: the active path has room
\* for one more transition and no access counter passes its cap.
SwitchWithinBounds(res) ==
    /\ \A p \in DOMAIN res.paths : Len(res.paths[p].transitions) <= MaxTransitions
    /\ \A r \in DOMAIN res.heap : res.heap[r].access_count <= MaxAccess

\* The storage directory before anything was saved: none of the files exists.
NoDocuments ==
    [contexts |-> [exists |-> FALSE, data |-> EmptyMap],
     paths |-> [exists |-> FALSE, data |-> EmptyMap],
     state |-> [exists |-> FALSE, data |-> EmptyMap]]

\* The requests the host is handling: none is inside switch_context.
RequestIds == 1..MaxRequests
NoRequest ==
    [pc |-> "idle", context_id |-> None, carry_nodes |-> << >>,
     transition |-> NewTransition(None, None, DefaultReason, << >>, 0)]
NoRequests == [t \in RequestIds |-> NoRequest]

Init ==
    /\ contexts = EmptyMap
    /\ heap = EmptyMap
    /\ paths = EmptyMap
    /\ current_context_id = None
    /\ active_path_id = None
    /\ now = 1
    /\ disk = NoDocuments
    /\ replay = NoReplay
    /\ error = NoError
    /\ lifetime = 1
    /\ requests = NoRequests

\* Time passes: between two calls, and while replay_path pauses.
Tick ==
    /\ now < MaxTime
    /\ now' = now + 1
    /\ UNCHANGED <<contexts, heap, paths, current_context_id, active_path_id, disk,
                   replay, error, lifetime>>
    /\ UNCHANGED requests

\* create_context(name, description)
CreateContext ==
    /\ ~replay.active
    /\ Cardinality(DOMAIN contexts) < MaxContexts
    /\ LET context_id == FreshId(DOMAIN contexts)
       IN /\ contexts' = MapPut(contexts, context_id, NewContext(context_id, "Alpha", now))
          /\ error' = NoError
    /\ replay' = NoReplay
    /\ UNCHANGED <<heap, paths, current_context_id, active_path_id, now, disk, lifetime>>
    /\ UNCHANGED requests

\* create_path(name, description)
CreatePath ==
    /\ ~replay.active
    /\ Cardinality(DOMAIN paths) < MaxPaths
    /\ LET path_id == FreshId(DOMAIN paths)
       IN /\ paths' = MapPut(paths, path_id, NewPath(path_id, "Trail", now))
          /\ error' = NoError
    /\ replay' = NoReplay
    /\ UNCHANGED <<contexts, heap, current_context_id, active_path_id, now, disk, lifetime>>
    /\ UNCHANGED requests

\* Context.add_node(ContextualNode(uuid, ...)) on a stored context, with a
\* node object built for the call.
AddNode(c, uuid, relevance) ==
    /\ ~replay.active
    /\ c \in DOMAIN contexts
    /\ \E ref \in Refs :
         /\ ref \notin DOMAIN heap
         /\ \A r \in Refs : r < ref => r \in DOMAIN heap
         /\ LET cs == [contexts EXCEPT ![c] = ContextAddNode(@, uuid, ref)]
                hp == MapPut(heap, ref, NewNode(uuid, relevance, now))
            IN /\ contexts' = cs
               /\ heap' = Collect(hp, cs)
    /\ replay' = NoReplay
    /\ error' = NoError
    /\ UNCHANGED <<paths, current_context_id, active_path_id, now, disk, lifetime>>
    /\ UNCHANGED requests

\* Context.add_relationship(source_id, target_id, rel_type) on a stored context
AddRelationship(c, source_id, target_id) ==
    /\ ~replay.active
    /\ c \in DOMAIN contexts
    /\ Cardinality(DOMAIN contexts[c].relationships) < MaxRelationships
    /\ contexts' = [contexts EXCEPT ![c] = ContextAddRelationship(@, source_id, target_id)]
    /\ replay' = NoReplay
    /\ error' = NoError
    /\ UNCHANGED <<heap, paths, current_context_id, active_path_id, now, disk, lifetime>>
    /\ UNCHANGED requests

\* Context.set_focus(node_ids) on a stored context
SetFocus(c, node_ids) ==
    /\ ~replay.active
    /\ c \in DOMAIN contexts
    /\ contexts' = [contexts EXCEPT ![c] = ContextSetFocus(@, node_ids)]
    /\ replay' = NoReplay
    /\ error' = NoError
    /\ UNCHANGED <<heap, paths, current_context_id, active_path_id, now, disk, lifetime>>
    /\ UNCHANGED requests

\* Context.get_node(node_id) on a stored context
GetNode(c, node_id) ==
    /\ ~replay.active
    /\ c \in DOMAIN contexts
    /\ IF node_id \in DOMAIN contexts[c].nodes
       THEN LET ref == contexts[c].nodes[node_id]
            IN /\ heap[ref].access_count < MaxAccess
               /\ heap' = [heap EXCEPT ![ref] = Access(@, now)]
               /\ contexts' = [contexts EXCEPT ![c].last_accessed = now]
       ELSE UNCHANGED <<heap, contexts>>
    /\ replay' = NoReplay
    /\ error' = NoError
    /\ UNCHANGED <<paths, current_context_id, active_path_id, now, disk, lifetime>>
    /\ UNCHANGED requests

\* A switch_context that makes an unknown id the current context.
SwitchContextUnchecked(context_id, carry_nodes) ==
    /\ ~replay.active
    /\ IF context_id \notin DOMAIN contexts
       THEN /\ current_context_id' = context_id
            /\ error' = NoError
            /\ UNCHANGED <<contexts, heap, paths>>
       ELSE LET res == SwitchContextResult(context_id, DefaultReason, carry_nodes)
            IN /\ SwitchWithinBounds(res)
               /\ contexts' = res.contexts
               /\ heap' = res.heap
               /\ paths' = res.paths
               /\ current_context_id' = res.current_context_id
               /\ error' = NoError
    /\ replay' = NoReplay
    /\ UNCHANGED <<active_path_id, now, disk, lifetime>>
    /\ UNCHANGED requests

\* A switch_context that records the transition before it looks the target up.
SwitchContextLateCheck(context_id, carry_nodes) ==
    /\ ~replay.active
    /\ IF context_id \notin DOMAIN contexts
       THEN /\ paths' = RecordTransition(paths, active_path_id,
                           NewTransition(current_context_id, context_id, DefaultReason,
                                         carry_nodes, now), now)
            /\ \A p \in DOMAIN paths : Len(paths'[p].transitions) <= MaxTransitions
            /\ error' = ContextNotFound
            /\ UNCHANGED <<contexts, heap, current_context_id>>
       ELSE LET res == SwitchContextResult(context_id, DefaultReason, carry_nodes)
            IN /\ SwitchWithinBounds(res)
               /\ contexts' = res.contexts
               /\ heap' = res.heap
               /\ paths' = res.paths
               /\ current_context_id' = res.current_context_id
               /\ error' = NoError
    /\ replay' = NoReplay
    /\ UNCHANGED <<active_path_id, now, disk, lifetime>>
    /\ UNCHANGED requests

\* switch_context(context_id, reason, carry_nodes)
SwitchContext(context_id, carry_nodes) ==
    /\ ~replay.active
    /\ IF context_id \notin DOMAIN contexts
       THEN /\ error' = ContextNotFound
            /\ UNCHANGED <<contexts, heap, paths, current_context_id>>
       ELSE LET res == SwitchContextResult(context_id, DefaultReason, carry_nodes)
            IN /\ SwitchWithinBounds(res)
               /\ contexts' = res.contexts
               /\ heap' = res.heap
               /\ paths' = res.paths
               /\ current_context_id' = res.current_context_id
               /\ error' = NoError
    /\ replay' = NoReplay
    /\ UNCHANGED <<active_path_id, now, disk, lifetime>>
    /\ UNCHANGED requests

\* A start_recording_path that does not look the path up.
StartRecordingPathUnchecked(path_id) ==
    /\ ~replay.active
    /\ active_path_id' = path_id
    /\ error' = NoError
    /\ replay' = NoReplay
    /\ UNCHANGED <<contexts, heap, paths, current_context_id, now, disk, lifetime>>
    /\ UNCHANGED requests

\* start_recording_path(path_id)
StartRecordingPath(path_id) ==
    /\ ~replay.active
    /\ IF path_id \notin DOMAIN paths
       THEN /\ error' = PathNotFound
            /\ UNCHANGED active_path_id
       ELSE /\ active_path_id' = path_id
            /\ error' = NoError
    /\ replay' = NoReplay
    /\ UNCHANGED <<contexts, heap, paths, current_context_id, now, disk, lifetime>>
    /\ UNCHANGED requests

\* stop_recording_path()
StopRecordingPath ==
    /\ ~replay.active
    /\ active_path_id' = None
    /\ error' = NoError
    /\ replay' = NoReplay
    /\ UNCHANGED <<contexts, heap, paths, current_context_id, now, disk, lifetime>>
    /\ UNCHANGED requests

\* A replay_path that forgets the current context before it looks the path up.
ReplayPathForgetful(path_id, callback) ==
    /\ ~replay.active
    /\ IF path_id \notin DOMAIN paths
       THEN /\ error' = PathNotFound
            /\ replay' = NoReplay
            /\ current_context_id' = None
       ELSE /\ error' = NoError
            /\ replay' = [active |-> TRUE, path_id |-> path_id, index |-> 0,
                          length |-> Len(paths[path_id].transitions),
                          before |-> current_context_id, callback |-> callback,
                          switched |-> << >>, called |-> << >>]
            /\ UNCHANGED current_context_id
    /\ UNCHANGED <<contexts, heap, paths, active_path_id, now, disk, lifetime>>
    /\ UNCHANGED requests

\* replay_path(path_id, callback), up to the start of its loop
ReplayPath(path_id, callback) ==
    /\ ~replay.active
    /\ IF path_id \notin DOMAIN paths
       THEN /\ error' = PathNotFound
            /\ replay' = NoReplay
       ELSE /\ error' = NoError
            /\ replay' = [active |-> TRUE, path_id |-> path_id, index |-> 0,
                          length |-> Len(paths[path_id].transitions),
                          before |-> current_context_id, callback |-> callback,
                          switched |-> << >>, called |-> << >>]
    /\ UNCHANGED <<contexts, heap, paths, current_context_id, active_path_id, now, disk, lifetime>>
    /\ UNCHANGED requests

\* A replay that goes to the context each transition left.
ReplayTargetFrom(path, index) == path.transitions[index + 1].from_context_id

\* replay_path, lines 118-120: the target of the switch made for the element
\* the iterator yields at position index (from 0).
ReplayTarget(path, index) == path.transitions[index + 1].to_context_id

\* One round of the loop of replay_path: the list iterator yields the next
\* element of path.transitions as the list is now, switch_context goes to its
\* target and the callback is called; the pause that follows is Tick's.
ReplayStep ==
    /\ replay.active
    /\ replay.index < Len(paths[replay.path_id].transitions)
    /\ LET path == paths[replay.path_id]
           context_id == ReplayTarget(path, replay.index)
       IN IF context_id \notin DOMAIN contexts
          THEN /\ error' = ContextNotFound
               /\ replay' = NoReplay
               /\ UNCHANGED <<contexts, heap, paths, current_context_id>>
          ELSE LET res == SwitchContextResult(context_id, ReplayReason(path.name), << >>)
               IN /\ SwitchWithinBounds(res)
                  /\ contexts' = res.contexts
                  /\ heap' = res.heap
                  /\ paths' = res.paths
                  /\ current_context_id' = res.current_context_id
                  /\ replay' = [replay EXCEPT
                                  !.index = @ + 1,
                                  !.switched = Append(@, context_id),
                                  !.called = IF replay.callback
                                             THEN Append(@, res.contexts[context_id].id)
                                             ELSE @]
                  /\ error' = NoError
    /\ UNCHANGED <<active_path_id, now, disk, lifetime>>
    /\ UNCHANGED requests

\* The iterator of replay_path is exhausted: the call returns.
ReplayReturn ==
    /\ replay.active
    /\ replay.index >= Len(paths[replay.path_id].transitions)
    /\ replay' = NoReplay
    /\ error' = NoError
    /\ UNCHANGED <<contexts, heap, paths, current_context_id, active_path_id, now, disk,
                   lifetime>>
    /\ UNCHANGED requests

(* ----------------------------- persistence ----------------------------- *)
\* What save_data writes: contexts.json, paths.json and state.json.
SavedDocuments(ctxs, hp, ps, current, active, t) ==
    [contexts |-> [exists |-> TRUE,
                   data |-> [k \in DOMAIN ctxs |-> ContextToDict(ctxs[k], hp)]],
     paths |-> [exists |-> TRUE,
                data |-> [k \in DOMAIN ps |-> PathToDict(ps[k])]],
     state |-> [exists |-> TRUE,
                data |-> [current_context_id |-> current,
                          active_path_id |-> active,
                          last_updated |-> t]]]

\* save_data()
SaveData ==
    /\ ~replay.active
    /\ disk' = SavedDocuments(contexts, heap, paths, current_context_id,
                              active_path_id, now)
    /\ replay' = NoReplay
    /\ error' = NoError
    /\ UNCHANGED <<contexts, heap, paths, current_context_id, active_path_id, now, lifetime>>
    /\ UNCHANGED requests

\* _load_data, contexts.json: every stored context rebuilt by Context.from_dict.
LoadedContexts(d) ==
    IF d.contexts.exists
    THEN [k \in DOMAIN d.contexts.data |-> ContextFromDict(d.contexts.data[k])]
    ELSE EmptyMap

\* _load_data, paths.json
LoadedPaths(d) ==
    IF d.paths.exists
    THEN [k \in DOMAIN d.paths.data |-> PathFromDict(d.paths.data[k])]
    ELSE EmptyMap

\* A load that leaves the new manager idle whatever state.json holds.
LoadedActivePathIdle(d) == None

\* _load_data, state.json
LoadedCurrentContext(d) ==
    IF d.state.exists THEN d.state.data.current_context_id ELSE None

LoadedActivePath(d) ==
    IF d.state.exists THEN d.state.data.active_path_id ELSE None

\* PriorityType[data['priority_scheme']] on a name the enum does not have.
SchemeNameUnknown == "KeyError: priority scheme name"

\* What _load_data raises: the KeyError of the first Context.from_dict that
\* meets a scheme name PriorityType does not have.
LoadRaises(d) ==
    IF d.contexts.exists
       /\ \E k \in DOMAIN d.contexts.data : d.contexts.data[k].priority_scheme \notin SchemeNames
    THEN SchemeNameUnknown
    ELSE NoError

\* A load that leaves out the stored contexts whose scheme name is unknown.
LoadDataSkipping(d) ==
    [error |-> NoError,
     contexts |-> IF d.contexts.exists
                  THEN [k \in {x \in DOMAIN d.contexts.data :
                                 d.contexts.data[x].priority_scheme \in SchemeNames} |->
                          ContextFromDict(d.contexts.data[k])]
                  ELSE EmptyMap,
     paths |-> LoadedPaths(d),
     current_context_id |-> LoadedCurrentContext(d),
     active_path_id |-> LoadedActivePath(d)]

\* __init__ with its _load_data: what the new manager holds, or the error that
\* leaves the constructor, in which case there is no manager and nothing is held.
LoadData(d) ==
    IF LoadRaises(d) # NoError
    THEN [error |-> LoadRaises(d), contexts |-> EmptyMap, paths |-> EmptyMap,
          current_context_id |-> None, active_path_id |-> None]
    ELSE [error |-> NoError, contexts |-> LoadedContexts(d), paths |-> LoadedPaths(d),
          current_context_id |-> LoadedCurrentContext(d),
          active_path_id |-> LoadedActivePath(d)]

\* A load that builds one node object per node id, for all contexts.
NodePlaceByNodeId(loaded, c, k) == k

\* The node objects from_dict built, one per (context, node id), in the order
\* they were built: the place of each on the heap.
NodePlace(loaded, c, k) ==
    Cardinality({e \in UNION {{<<x, y>> : y \in DOMAIN loaded[x].nodes} : x \in DOMAIN loaded} :
                   e[1] < c \/ (e[1] = c /\ e[2] <= k)})

\* ContextManager(storage_dir=...): a new manager on the storage directory,
\* __init__ followed by _load_data.
Restart ==
    /\ ~replay.active
    /\ lifetime < MaxLifetimes
    /\ LET loaded == LoadData(disk).contexts
           places == UNION {{<<x, y>> : y \in DOMAIN loaded[x].nodes} : x \in DOMAIN loaded}
       IN /\ contexts' = [c \in DOMAIN loaded |->
                            [loaded[c] EXCEPT !.nodes =
                               [k \in DOMAIN loaded[c].nodes |-> NodePlace(loaded, c, k)]]]
          /\ heap' = [r \in {NodePlace(loaded, x[1], x[2]) : x \in places} |->
                        LET e == CHOOSE x \in places : NodePlace(loaded, x[1], x[2]) = r
                        IN loaded[e[1]].nodes[e[2]]]
    /\ paths' = LoadData(disk).paths
    /\ current_context_id' = LoadData(disk).current_context_id
    /\ active_path_id' = LoadData(disk).active_path_id
    /\ replay' = NoReplay
    /\ error' = LoadData(disk).error
    /\ lifetime' = lifetime + 1
    /\ UNCHANGED <<now, disk>>
    /\ UNCHANGED requests

(* --------------------------- priority ranking -------------------------- *)
CustomFunctionRequired == "ValueError: Custom priority scheme requires a custom function"

\* Context.set_priority_scheme(scheme, custom_function): the scheme is stored
\* before the check of the custom function.
SetPriorityScheme(c, scheme, custom_function) ==
    /\ ~replay.active
    /\ c \in DOMAIN contexts
    /\ IF scheme = CUSTOM /\ ~custom_function
       THEN /\ contexts' = [contexts EXCEPT ![c].priority_scheme = scheme]
            /\ error' = CustomFunctionRequired
       ELSE /\ contexts' = [contexts EXCEPT
                              ![c].priority_scheme = scheme,
                              ![c].custom_priority_function =
                                  IF scheme = CUSTOM THEN TRUE ELSE @]
            /\ error' = NoError
    /\ UNCHANGED <<heap, paths, current_context_id, active_path_id, now, disk,
                   replay, lifetime>>
    /\ UNCHANGED requests

\* A top_nodes that reads the stored priorities without recomputing them.
RankedHeapUnchanged(hp, c) == hp

\* What update_priority raises: none of its branches raises, and a scheme
\* without a branch (CENTRALITY, CUSTOM) falls through.
UpdatePriorityError(node, scheme) == NoError

\* What top_nodes raises: what the first update_priority of its loop raises.
TopNodesError(c, hp) ==
    IF \E k \in DOMAIN c.nodes : UpdatePriorityError(hp[c.nodes[k]], c.priority_scheme) # NoError
    THEN LET k == CHOOSE x \in DOMAIN c.nodes :
                    UpdatePriorityError(hp[c.nodes[x]], c.priority_scheme) # NoError
         IN UpdatePriorityError(hp[c.nodes[k]], c.priority_scheme)
    ELSE NoError

\* top_nodes, lines 246-247: every node of the context gets its priority
\* under the context's scheme.
RankedHeap(hp, c) ==
    [r \in DOMAIN hp |->
        IF r \in MapRange(c.nodes) THEN UpdatePriority(hp[r], c.priority_scheme)
        ELSE hp[r]]

\* The orders in which the dict of a context's nodes may hold its keys: the
\* order of their first insertion, which the model does not keep.
NodeOrders(c) ==
    {order \in [1..Cardinality(DOMAIN c.nodes) -> DOMAIN c.nodes] :
        \A i \in DOMAIN order, j \in DOMAIN order : order[i] = order[j] => i = j}

\* sorted(items, key=priority, reverse=True): stable, larger priorities first.
RECURSIVE SortedByPriority(_)
SortedByPriority(items) ==
    IF items = << >> THEN << >>
    ELSE LET front == SortedByPriority(SubSeq(items, 1, Len(items) - 1))
             x == items[Len(items)]
             k == Cardinality({i \in DOMAIN front : front[i].priority >= x.priority})
         IN SubSeq(front, 1, k) \o <<x>> \o SubSeq(front, k + 1, Len(front))

\* top_nodes, line 250: heapq.nlargest(n, self.nodes.values(), key=priority),
\* which is sorted(..., reverse=True)[:n]; hp holds the recomputed priorities
\* and order is the order of the dict. The nodes are given by their ids.
TopNodesResult(c, hp, order, n) ==
    LET items == [i \in DOMAIN order |->
                    [node_id |-> order[i], priority |-> hp[c.nodes[order[i]]].priority]]
        ranked == SortedByPriority(items)
    IN SubSeq(ranked, 1, IF n < Len(ranked) THEN n ELSE Len(ranked))

\* Context.top_nodes(n) on a stored context
TopNodes(c, n) ==
    /\ ~replay.active
    /\ c \in DOMAIN contexts
    /\ heap' = RankedHeap(heap, contexts[c])
    /\ error' = TopNodesError(contexts[c], heap)
    /\ UNCHANGED <<contexts, paths, current_context_id, active_path_id, now, disk,
                   replay, lifetime>>
    /\ UNCHANGED requests

(* --------------------------- pattern analysis -------------------------- *)
TopTransitions == 10
TopContexts == 10
MinCycleLength == 2
CycleLengthStop == 10

Min(a, b) == IF a < b THEN a ELSE b

Take(s, n) == SubSeq(s, 1, Min(n, Len(s)))

\* The paths in the order the dict holds them: the order of their creation.
PathsInOrder(ps) == [i \in 1..Cardinality(DOMAIN ps) |-> ps[i]]

\* [t.to_context_id for t in path.transitions]
ContextSequence(p) == [i \in DOMAIN p.transitions |-> p.transitions[i].to_context_id]

\* Keys built the other way round: (to_ctx, from_ctx).
PairsOfReversed(S) ==
    IF S = << >> THEN << >> ELSE [i \in 1..(Len(S) - 1) |-> <<S[i + 1], S[i]>>]

\* The keys (from_ctx, to_ctx) one path adds to transition_counts, in order.
PairsOf(S) ==
    IF S = << >> THEN << >> ELSE [i \in 1..(Len(S) - 1) |-> <<S[i], S[i + 1]>>]

RECURSIVE Flatten(_)
Flatten(ss) == IF ss = << >> THEN << >> ELSE Head(ss) \o Flatten(Tail(ss))

\* The keys of a counting dict, in the order of their first insertion.
RECURSIVE KeysInOrder(_)
KeysInOrder(s) ==
    IF s = << >> THEN << >>
    ELSE LET front == KeysInOrder(SubSeq(s, 1, Len(s) - 1))
             x == s[Len(s)]
         IN IF x \in Range(front) THEN front ELSE Append(front, x)

Occurrences(s, x) == Cardinality({i \in DOMAIN s : s[i] = x})

\* A sort by count without reverse=True: smaller counts first.
RECURSIVE SortedByCountAscending(_)
SortedByCountAscending(items) ==
    IF items = << >> THEN << >>
    ELSE LET front == SortedByCountAscending(SubSeq(items, 1, Len(items) - 1))
             x == items[Len(items)]
             k == Cardinality({i \in DOMAIN front : front[i].count <= x.count})
         IN SubSeq(front, 1, k) \o <<x>> \o SubSeq(front, k + 1, Len(front))

\* sorted(items, key=count, reverse=True): stable, larger counts first.
RECURSIVE SortedByCount(_)
SortedByCount(items) ==
    IF items = << >> THEN << >>
    ELSE LET front == SortedByCount(SubSeq(items, 1, Len(items) - 1))
             x == items[Len(items)]
             k == Cardinality({i \in DOMAIN front : front[i].count >= x.count})
         IN SubSeq(front, 1, k) \o <<x>> \o SubSeq(front, k + 1, Len(front))

\* sorted(items, key=visits, reverse=True)
RECURSIVE SortedByVisits(_)
SortedByVisits(items) ==
    IF items = << >> THEN << >>
    ELSE LET front == SortedByVisits(SubSeq(items, 1, Len(items) - 1))
             x == items[Len(items)]
             k == Cardinality({i \in DOMAIN front : front[i].visits >= x.visits})
         IN SubSeq(front, 1, k) \o <<x>> \o SubSeq(front, k + 1, Len(front))

\* analyze_context_patterns, lines 149-162
CommonTransitions(ps) ==
    LET pairs == Flatten([i \in DOMAIN PathsInOrder(ps) |->
                            PairsOf(ContextSequence(PathsInOrder(ps)[i]))])
        keys == KeysInOrder(pairs)
    IN Take(SortedByCount([i \in DOMAIN keys |->
                             [from |-> keys[i][1], to |-> keys[i][2],
                              count |-> Occurrences(pairs, keys[i])]]),
            TopTransitions)

\* Visits counted on the first stored path only.
FrequentContextsOfFirstPath(ps) ==
    LET visits == ContextSequence(PathsInOrder(ps)[1])
        keys == KeysInOrder(visits)
    IN Take(SortedByVisits([i \in DOMAIN keys |->
                              [id |-> keys[i], visits |-> Occurrences(visits, keys[i])]]),
            TopContexts)

\* analyze_context_patterns, lines 164-174
FrequentContexts(ps) ==
    LET visits == Flatten([i \in DOMAIN PathsInOrder(ps) |->
                             ContextSequence(PathsInOrder(ps)[i])])
        keys == KeysInOrder(visits)
    IN Take(SortedByVisits([i \in DOMAIN keys |->
                              [id |-> keys[i], visits |-> Occurrences(visits, keys[i])]]),
            TopContexts)

\* The window lengths the loop of line 181 takes: range(2, min(10, n // 2 + 1)).
CycleLengths(n) == {L \in MinCycleLength..(Min(CycleLengthStop, (n \div 2) + 1) - 1) : TRUE}

\* The start indices (from 0) at which the run of length L repeats at once.
RepeatsAt(S, L) ==
    {i \in 0..(Len(S) - 2 * L) :
        SubSeq(S, i + 1, i + L) = SubSeq(S, i + L + 1, i + 2 * L)}

\* A cycle record that holds both runs of the repetition.
RECURSIVE CyclesFromWholeRun(_, _, _)
CyclesFromWholeRun(p, S, L) ==
    IF L \notin CycleLengths(Len(S)) THEN << >>
    ELSE (IF RepeatsAt(S, L) = {} THEN << >>
          ELSE LET i == CHOOSE j \in RepeatsAt(S, L) : \A k \in RepeatsAt(S, L) : j <= k
               IN <<[path_id |-> p.id, path_name |-> p.name, cycle_length |-> L,
                     contexts |-> SubSeq(S, i + 1, i + 2 * L)]>>)
         \o CyclesFromWholeRun(p, S, L + 1)

\* A scan that reports the last start index at which the run repeats.
RECURSIVE CyclesFromLastRepeat(_, _, _)
CyclesFromLastRepeat(p, S, L) ==
    IF L \notin CycleLengths(Len(S)) THEN << >>
    ELSE (IF RepeatsAt(S, L) = {} THEN << >>
          ELSE LET i == CHOOSE j \in RepeatsAt(S, L) : \A k \in RepeatsAt(S, L) : j >= k
               IN <<[path_id |-> p.id, path_name |-> p.name, cycle_length |-> L,
                     contexts |-> SubSeq(S, i + 1, i + L)]>>)
         \o CyclesFromLastRepeat(p, S, L + 1)

\* analyze_context_patterns, lines 178-191, for one path: at most one cycle
\* per window length, the one at the first index that matches.
RECURSIVE CyclesFrom(_, _, _)
CyclesFrom(p, S, L) ==
    IF L \notin CycleLengths(Len(S)) THEN << >>
    ELSE (IF RepeatsAt(S, L) = {} THEN << >>
          ELSE LET i == CHOOSE j \in RepeatsAt(S, L) : \A k \in RepeatsAt(S, L) : j <= k
               IN <<[path_id |-> p.id, path_name |-> p.name, cycle_length |-> L,
                     contexts |-> SubSeq(S, i + 1, i + L)]>>)
         \o CyclesFrom(p, S, L + 1)

Cycles(ps) ==
    Flatten([i \in DOMAIN PathsInOrder(ps) |->
               CyclesFrom(PathsInOrder(ps)[i], ContextSequence(PathsInOrder(ps)[i]),
                          MinCycleLength)])

\* What analyze_context_patterns() returns.
AnalysisResult(ps) ==
    IF DOMAIN ps = {}
    THEN [message |-> "No paths available for analysis"]
    ELSE [common_transitions |-> CommonTransitions(ps),
          frequent_contexts |-> FrequentContexts(ps),
          cycles |-> Cycles(ps)]

\* analyze_context_patterns(): reads the paths and changes nothing.
AnalyzeContextPatterns ==
    /\ ~replay.active
    /\ error' = NoError
    /\ UNCHANGED <<contexts, heap, paths, current_context_id, active_path_id, now,
                   disk, replay, lifetime>>
    /\ UNCHANGED requests

\* compare_contexts, lines 378-383, for one common node id: the two node
\* objects after node1.update_priority(ctx1.priority_scheme) and then
\* node2.update_priority(ctx2.priority_scheme). When both contexts hold the
\* same object, the second update acts on what the first one left.
ComparedNodes(hp, ctx1, ctx2, node_id) ==
    LET ref1 == ctx1.nodes[node_id]
        ref2 == ctx2.nodes[node_id]
        updated1 == UpdatePriority(hp[ref1], ctx1.priority_scheme)
        updated2 == UpdatePriority(IF ref2 = ref1 THEN updated1 ELSE hp[ref2],
                                   ctx2.priority_scheme)
    IN [node1 |-> IF ref1 = ref2 THEN updated2 ELSE updated1, node2 |-> updated2]

\* compare_contexts: the heap after the loop over the common node ids.
ComparedHeap(hp, ctx1, ctx2) ==
    LET common == (DOMAIN ctx1.nodes) \cap (DOMAIN ctx2.nodes)
    IN [r \in DOMAIN hp |->
          IF \E k \in common : ctx2.nodes[k] = r
          THEN ComparedNodes(hp, ctx1, ctx2,
                             CHOOSE k \in common : ctx2.nodes[k] = r).node2
          ELSE IF \E k \in common : ctx1.nodes[k] = r
               THEN ComparedNodes(hp, ctx1, ctx2,
                                  CHOOSE k \in common : ctx1.nodes[k] = r).node1
               ELSE hp[r]]

Abs(x) == IF x < 0 THEN 0 - x ELSE x

\* 0.1 in tenths: "if diff > 0.1"
SignificantDifference == 1
TopDifferences == 10

\* sorted(items, key=difference, reverse=True)
RECURSIVE SortedByDifference(_)
SortedByDifference(items) ==
    IF items = << >> THEN << >>
    ELSE LET front == SortedByDifference(SubSeq(items, 1, Len(items) - 1))
             x == items[Len(items)]
             k == Cardinality({i \in DOMAIN front : front[i].difference >= x.difference})
         IN SubSeq(front, 1, k) \o <<x>> \o SubSeq(front, k + 1, Len(front))

\* compare_contexts, lines 376-397 and 423: "priority_differences". The loop
\* goes over the set of common ids in some order.
PriorityDifferences(hp, ctx1, ctx2) ==
    LET common == SetToSeq((DOMAIN ctx1.nodes) \cap (DOMAIN ctx2.nodes))
        diffs == [i \in DOMAIN common |->
                    LET both == ComparedNodes(hp, ctx1, ctx2, common[i])
                    IN [node_id |-> common[i],
                        ctx1_priority |-> both.node1.priority,
                        ctx2_priority |-> both.node2.priority,
                        difference |-> Abs(both.node1.priority - both.node2.priority)]]
    IN Take(SortedByDifference(SelectSeq(diffs,
                LAMBDA d : d.difference > SignificantDifference)),
            TopDifferences)

\* A score that divides by the size of the first context's node set.
SimilarityScoreOverFirst(ctx1, ctx2) ==
    LET nodes1 == DOMAIN ctx1.nodes
        nodes2 == DOMAIN ctx2.nodes
    IN [num |-> Cardinality(nodes1 \cap nodes2),
        den |-> IF Cardinality(nodes1) > 1 THEN Cardinality(nodes1) ELSE 1]

\* "similarity_score": len(common_nodes) / max(1, len(nodes1.union(nodes2))),
\* kept as the quotient num / den.
SimilarityScore(ctx1, ctx2) ==
    LET nodes1 == DOMAIN ctx1.nodes
        nodes2 == DOMAIN ctx2.nodes
        common_nodes == nodes1 \cap nodes2
    IN [num |-> Cardinality(common_nodes),
        den |-> IF Cardinality(nodes1 \cup nodes2) > 1
                THEN Cardinality(nodes1 \cup nodes2) ELSE 1]

\* Counts that take the whole first node set as the nodes only in it.
NodeCountsOverFirst(ctx1, ctx2) ==
    LET nodes1 == DOMAIN ctx1.nodes
        nodes2 == DOMAIN ctx2.nodes
    IN [common_nodes |-> Cardinality(nodes1 \cap nodes2),
        only_in_ctx1 |-> Cardinality(nodes1),
        only_in_ctx2 |-> Cardinality(nodes2 \ nodes1)]

\* "common_nodes": len(common_nodes), "only_in_ctx1": len(only_in_ctx1),
\* "only_in_ctx2": len(only_in_ctx2) of the returned dict.
NodeCounts(ctx1, ctx2) ==
    LET nodes1 == DOMAIN ctx1.nodes
        nodes2 == DOMAIN ctx2.nodes
        common_nodes == nodes1 \cap nodes2
        only_in_ctx1 == nodes1 \ nodes2
        only_in_ctx2 == nodes2 \ nodes1
    IN [common_nodes |-> Cardinality(common_nodes),
        only_in_ctx1 |-> Cardinality(only_in_ctx1),
        only_in_ctx2 |-> Cardinality(only_in_ctx2)]

\* compare_contexts(context_id_1, context_id_2)
CompareContexts(context_id_1, context_id_2) ==
    /\ ~replay.active
    /\ IF context_id_1 \notin DOMAIN contexts \/ context_id_2 \notin DOMAIN contexts
       THEN /\ error' = ContextsNotFound
            /\ UNCHANGED heap
       ELSE /\ heap' = ComparedHeap(heap, contexts[context_id_1], contexts[context_id_2])
            /\ error' = NoError
    /\ UNCHANGED <<contexts, paths, current_context_id, active_path_id, now, disk,
                   replay, lifetime>>
    /\ UNCHANGED requests

(* ------------------------------- import ------------------------------- *)
\* A row of the query result that has no 'n' entry: result['n'] raises KeyError.
BadRow == None
RowKeyError == "KeyError: n"
NoActiveContext == "ValueError: No active context"

\* The results the graph module returns: rows that hold a node with its uuid,
\* and rows that hold none.
RowLists == SeqsUpTo(NodeIds \cup {BadRow}, MaxRows)

\* The reference the next node object gets, None when the heap is full.
FreeRef(hp) ==
    IF \E ref \in Refs : ref \notin DOMAIN hp
    THEN CHOOSE ref \in Refs : ref \notin DOMAIN hp /\ \A r \in Refs : r < ref => r \in DOMAIN hp
    ELSE None

\* import_from_graph_module, lines 282-294: the loop over the rows. st holds
\* the contexts, the heap, the error that left the loop, and whether the heap
\* had room for every node object built.
RECURSIVE ImportRows(_, _, _, _)
ImportRows(st, c, rows, t) ==
    IF rows = << >> \/ st.error # NoError \/ ~st.room THEN st
    ELSE IF Head(rows) = BadRow
         THEN [st EXCEPT !.error = RowKeyError]
         ELSE LET ref == FreeRef(st.heap)
              IN IF ref = None THEN [st EXCEPT !.room = FALSE]
                 ELSE LET cs == [st.contexts EXCEPT
                                   ![c] = ContextAddNode(@, Head(rows), ref)]
                          hp == MapPut(st.heap, ref, NewNode(Head(rows), 5, t))
                      IN ImportRows([st EXCEPT !.contexts = cs, !.heap = Collect(hp, cs)],
                                    c, Tail(rows), t)

\* import_from_graph_module(module_path, label, limit), the module's _query
\* returning rows
ImportFromGraphModule(rows) ==
    /\ ~replay.active
    /\ IF current_context_id = None
       THEN /\ error' = NoActiveContext
            /\ UNCHANGED <<contexts, heap>>
       ELSE LET st == ImportRows([contexts |-> contexts, heap |-> heap,
                                  error |-> NoError, room |-> TRUE],
                                 current_context_id, rows, now)
            IN /\ st.room
               /\ contexts' = st.contexts
               /\ heap' = st.heap
               /\ error' = st.error
    /\ replay' = NoReplay
    /\ UNCHANGED <<paths, current_context_id, active_path_id, now, disk, lifetime>>
    /\ UNCHANGED requests

(* ------------------------------ HTTP host ------------------------------ *)
\* The route POST /contexts/switch/<context_id> of app.py calls
\* context_manager.switch_context on the one manager of the application, with
\* no lock; the server handles each request on a thread of its own. A request
\* runs switch_context statement by statement, and other requests run between
\* its statements.
ApiReason == <<"API switch">>

\* switch_context, lines 55-64: the existence check and the transition, built
\* from the current_context_id the request reads.
HostSwitchBegin(t, context_id, carry_nodes) ==
    /\ requests[t].pc = "idle"
    /\ IF context_id \notin DOMAIN contexts
       THEN /\ error' = ContextNotFound
            /\ UNCHANGED requests
       ELSE /\ requests' = [requests EXCEPT ![t] =
                              [pc |-> "built", context_id |-> context_id,
                               carry_nodes |-> carry_nodes,
                               transition |-> NewTransition(current_context_id, context_id,
                                                            ApiReason, carry_nodes, now)]]
            /\ UNCHANGED error
    /\ UNCHANGED <<contexts, heap, paths, current_context_id, active_path_id, now, disk,
                   replay, lifetime>>

\* switch_context, lines 66-68: the transition goes to the active path.
HostSwitchRecord(t) ==
    /\ requests[t].pc = "built"
    /\ \A p \in DOMAIN paths : p = active_path_id => Len(paths[p].transitions) < MaxTransitions
    /\ paths' = RecordTransition(paths, active_path_id, requests[t].transition, now)
    /\ requests' = [requests EXCEPT ![t].pc = "recorded"]
    /\ UNCHANGED <<contexts, heap, current_context_id, active_path_id, now, disk, replay,
                   error, lifetime>>

\* switch_context, lines 70-84: the carry from the context that is current
\* now, then the new current context and its last_accessed.
HostSwitchFinish(t) ==
    /\ requests[t].pc = "recorded"
    /\ LET context_id == requests[t].context_id
           carry_nodes == requests[t].carry_nodes
           st0 == [contexts |-> contexts, heap |-> heap]
           st1 == IF carry_nodes # << >> /\ current_context_id # None
                     /\ current_context_id \in DOMAIN contexts
                  THEN CarryNodes(st0, current_context_id, context_id, carry_nodes, now)
                  ELSE st0
           cs == [st1.contexts EXCEPT ![context_id].last_accessed = now]
       IN /\ contexts' = cs
          /\ heap' = Collect(st1.heap, cs)
          /\ current_context_id' = context_id
    /\ requests' = [requests EXCEPT ![t] = NoRequest]
    /\ error' = NoError
    /\ UNCHANGED <<paths, active_path_id, now, disk, replay, lifetime>>

(* ---------------------------- specifications --------------------------- *)
CarryLists == SeqsUpTo(NodeIds, MaxCarry)

\* The carry lists that name no node id but the first.
FirstNodeCarryLists == SeqsUpTo({1}, MaxCarry)

\* Navigation: the manager's own operations, on contexts that hold no nodes
\* and within one reading of the clock (no operation branches on the time).
NextNav ==
    \/ CreateContext
    \/ CreatePath
    \/ \E context_id \in ContextIds, carry_nodes \in FirstNodeCarryLists :
         SwitchContext(context_id, carry_nodes)
    \/ \E path_id \in PathIds : StartRecordingPath(path_id)
    \/ StopRecordingPath
    \/ \E path_id \in PathIds, callback \in BOOLEAN : ReplayPath(path_id, callback)
    \/ ReplayStep
    \/ ReplayReturn
    \/ AnalyzeContextPatterns
    \/ \E id1 \in ContextIds, id2 \in ContextIds : CompareContexts(id1, id2)

SpecNav == Init /\ [][NextNav]_vars

\* Recording with nodes: switches that carry nodes between contexts while one
\* path records, within one reading of the clock.
NextRecord ==
    \/ CreateContext
    \/ CreatePath /\ DOMAIN paths = {}
    \/ \E path_id \in PathIds : StartRecordingPath(path_id)
    \/ StopRecordingPath
    \/ \E c \in ContextIds, uuid \in NodeIds : AddNode(c, uuid, 5)
    \/ \E c \in ContextIds, node_id \in NodeIds : GetNode(c, node_id)
    \/ \E context_id \in ContextIds, carry_nodes \in CarryLists :
         SwitchContext(context_id, carry_nodes)

SpecRecord == Init /\ [][NextRecord]_vars

\* Carrying: contexts, their nodes and the clock, with no path.
NextCarry ==
    \/ Tick
    \/ CreateContext
    \/ \E c \in ContextIds, uuid \in NodeIds, relevance \in RelevanceValues :
         AddNode(c, uuid, relevance)
    \/ \E c \in ContextIds, node_id \in NodeIds : GetNode(c, node_id)
    \/ \E context_id \in ContextIds, carry_nodes \in CarryLists :
         SwitchContext(context_id, carry_nodes)

SpecCarry == Init /\ [][NextCarry]_vars

\* The schemes update_priority has a branch for.
RankingSchemes == {RECENCY, FREQUENCY, RELEVANCE}

\* Comparison: contexts, their nodes (shared by carrying), their ranking
\* schemes and compare_contexts, within one reading of the clock.
NextCompare ==
    \/ CreateContext
    \/ \E c \in ContextIds, uuid \in NodeIds, relevance \in RelevanceValues :
         AddNode(c, uuid, relevance)
    \/ \E c \in ContextIds, node_id \in NodeIds : GetNode(c, node_id)
    \/ \E context_id \in ContextIds, carry_nodes \in CarryLists :
         SwitchContext(context_id, carry_nodes)
    \/ \E c \in ContextIds, scheme \in RankingSchemes : SetPriorityScheme(c, scheme, FALSE)
    \/ \E id1 \in ContextIds, id2 \in ContextIds : CompareContexts(id1, id2)

SpecCompare == Init /\ [][NextCompare]_vars

\* Refusals: replay_path and compare_contexts on known and unknown ids, with
\* one recorded path and nodes ranked by frequency, within one reading of the
\* clock.
NextRefuse ==
    \/ CreateContext
    \/ CreatePath /\ DOMAIN paths = {}
    \/ \E c \in ContextIds, uuid \in NodeIds : AddNode(c, uuid, 5)
    \/ \E c \in ContextIds : SetPriorityScheme(c, FREQUENCY, FALSE)
    \/ \E context_id \in ContextIds : SwitchContext(context_id, << >>)
    \/ \E path_id \in DOMAIN paths : StartRecordingPath(path_id)
    \/ StopRecordingPath
    \/ \E path_id \in PathIds, callback \in BOOLEAN : ReplayPath(path_id, callback)
    \/ ReplayStep
    \/ ReplayReturn
    \/ \E id1 \in ContextIds, id2 \in ContextIds : CompareContexts(id1, id2)

SpecRefuse == Init /\ [][NextRefuse]_vars

\* Import: contexts, the current context and the rows imported into it, within
\* one reading of the clock.
NextImport ==
    \/ CreateContext
    \/ \E context_id \in ContextIds : SwitchContext(context_id, << >>)
    \/ \E c \in ContextIds, node_id \in NodeIds : GetNode(c, node_id)
    \/ \E rows \in RowLists : ImportFromGraphModule(rows)

SpecImport == Init /\ [][NextImport]_vars

\* Description: every operation that changes a context's nodes or focus,
\* within one reading of the clock.
FocusLists == SeqsUpTo(NodeIds, MaxFocus)

NextDescribe ==
    \/ CreateContext
    \/ \E c \in ContextIds, uuid \in NodeIds : AddNode(c, uuid, 5)
    \/ \E c \in ContextIds, target_id \in NodeIds : AddRelationship(c, 1, target_id)
    \/ \E c \in ContextIds, node_ids \in FocusLists : SetFocus(c, node_ids)
    \/ \E c \in ContextIds, node_id \in NodeIds : GetNode(c, node_id)
    \/ \E rows \in RowLists : ImportFromGraphModule(rows)
    \/ \E context_id \in ContextIds, carry_nodes \in CarryLists :
         SwitchContext(context_id, carry_nodes)

SpecDescribe == Init /\ [][NextDescribe]_vars

\* The host: requests that switch the context while one path records, on
\* contexts that hold no nodes, within one reading of the clock.
NextHost ==
    \/ CreateContext
    \/ CreatePath /\ DOMAIN paths = {}
    \/ \E path_id \in PathIds : StartRecordingPath(path_id)
    \/ \E t \in RequestIds, context_id \in ContextIds : HostSwitchBegin(t, context_id, << >>)
    \/ \E t \in RequestIds : HostSwitchRecord(t)
    \/ \E t \in RequestIds : HostSwitchFinish(t)

SpecHost == Init /\ [][NextHost]_vars

\* Reloading: the first node, carried between contexts and accessed, save_data,
\* and a new manager built on the storage directory, within one reading of the
\* clock.
NextReload ==
    \/ CreateContext
    \/ \E c \in ContextIds : AddNode(c, 1, 5)
    \/ \E c \in ContextIds : GetNode(c, 1)
    \/ \E context_id \in ContextIds, carry_nodes \in FirstNodeCarryLists :
         SwitchContext(context_id, carry_nodes)
    \/ SaveData
    \/ Restart

SpecReload == Init /\ [][NextReload]_vars

\* Ranking: one context, its nodes and its priority scheme.
NextRank ==
    \/ Tick
    \/ CreateContext /\ DOMAIN contexts = {}
    \/ \E c \in ContextIds, uuid \in NodeIds, relevance \in RelevanceValues :
         AddNode(c, uuid, relevance)
    \/ \E c \in ContextIds, node_id \in NodeIds : GetNode(c, node_id)
    \/ \E c \in ContextIds, scheme \in PriorityType, custom_function \in BOOLEAN :
         SetPriorityScheme(c, scheme, custom_function)
    \/ \E c \in ContextIds : TopNodes(c, 1)

SpecRank == Init /\ [][NextRank]_vars

\* Persistence: navigation without carried nodes, save_data, and a new manager
\* built on the storage directory.
NextPersist ==
    \/ CreateContext
    \/ CreatePath
    \/ \E path_id \in PathIds : StartRecordingPath(path_id)
    \/ StopRecordingPath
    \/ \E context_id \in ContextIds : SwitchContext(context_id, << >>)
    \/ SaveData
    \/ Restart

SpecPersist == Init /\ [][NextPersist]_vars

\* Loading: a storage directory whose contexts.json was written by another
\* hand. It holds the documents of up to MaxContexts contexts, each with a
\* scheme name of PriorityType or a name the enum does not have. A manager is
\* built on it; where the constructor raised there is no manager to call.
StoredSchemeNames == SchemeNames \cup {"URGENCY"}

InitLoad ==
    /\ contexts = EmptyMap
    /\ heap = EmptyMap
    /\ paths = EmptyMap
    /\ current_context_id = None
    /\ active_path_id = None
    /\ now = 1
    /\ \E n \in 0..MaxContexts : \E names \in [1..n -> StoredSchemeNames] :
          LET saved == SavedDocuments([k \in 1..n |-> NewContext(k, "Alpha", 1)],
                                      EmptyMap, EmptyMap, None, None, 1)
          IN disk = [saved EXCEPT !.contexts.data =
                        [k \in 1..n |-> [saved.contexts.data[k] EXCEPT
                                            !.priority_scheme = names[k]]]]
    /\ replay = NoReplay
    /\ error = NoError
    /\ lifetime = 1
    /\ requests = NoRequests

NextLoad ==
    \/ Restart
    \/ error # SchemeNameUnknown /\ CreateContext
    \/ error # SchemeNameUnknown
         /\ \E c \in ContextIds, scheme \in PriorityType : SetPriorityScheme(c, scheme, TRUE)
    \/ error # SchemeNameUnknown /\ SaveData

SpecLoad == InitLoad /\ [][NextLoad]_vars

\* Analysis: a manager that holds recorded paths, and the operations that read
\* them. The paths are given by the contexts they visit: path 2 was recorded
\* first, then path 1, by switch_context calls within one reading of the
\* clock. Path 1 visits a tour of all contexts cut at any point and followed by
\* a few more visits, or makes a few visits among the first contexts; path 2
\* makes up to two visits.
AnalysisIds == 1..AnalysisContexts

Tour == [i \in AnalysisIds |-> i]

\* A run of the tour walked twice at once, and then possibly begun again.
RepeatedRuns ==
    {SubSeq(Tour, 1, k) \o SubSeq(Tour, 1, k) \o SubSeq(Tour, 1, j) :
        k \in 1..Min(CycleLengthStop, Len(Tour)), j \in 0..1}

FirstPathVisits ==
    {SubSeq(Tour, 1, k) \o s : k \in 0..Len(Tour), s \in SeqsUpTo(AnalysisIds, MaxAppended)}
        \cup SeqsUpTo(1..FreeContexts, MaxFreeVisits)
        \cup RepeatedRuns

SecondPathVisits == SeqsUpTo(1..2, 2)

\* The path the switches to the contexts of S record, one after the other,
\* from a manager whose current context is start.
RECURSIVE RecordedPath(_, _, _)
RecordedPath(id, S, start) ==
    IF S = << >> THEN NewPath(id, "Trail", 1)
    ELSE LET before == SubSeq(S, 1, Len(S) - 1)
             from == IF before = << >> THEN start ELSE before[Len(before)]
         IN AddTransition(RecordedPath(id, before, start),
                          NewTransition(from, S[Len(S)], DefaultReason, << >>, 1), 1)

LastVisit(S, start) == IF S = << >> THEN start ELSE S[Len(S)]

InitAnalysis ==
    /\ contexts = [i \in AnalysisIds |-> NewContext(i, "Alpha", 1)]
    /\ heap = EmptyMap
    /\ \E S1 \in FirstPathVisits, S2 \in SecondPathVisits, both \in BOOLEAN :
         /\ paths = IF both
                    THEN <<RecordedPath(1, S1, LastVisit(S2, None)),
                           RecordedPath(2, S2, None)>>
                    ELSE <<RecordedPath(1, S1, None)>>
         /\ current_context_id = IF both THEN LastVisit(S1, LastVisit(S2, None))
                                 ELSE LastVisit(S1, None)
    /\ active_path_id = None
    /\ now = 1
    /\ disk = NoDocuments
    /\ replay = NoReplay
    /\ error = NoError
    /\ lifetime = 1
    /\ requests = NoRequests

NextAnalysis ==
    \/ AnalyzeContextPatterns
    \/ \E path_id \in PathIds : StartRecordingPath(path_id)
    \/ StopRecordingPath

SpecAnalysis == InitAnalysis /\ [][NextAnalysis]_vars

\* The scenario of the end-to-end example, call by call: two contexts, two
\* nodes in the first, the first made current, a path recording a switch to the
\* second context that carries the first node, the switch back, and the stop.
\* The clock may advance between any two calls.
FirstNodeAccesses == heap[contexts[1].nodes[1]].access_count

ScenarioDone ==
    /\ DOMAIN contexts = {1, 2}
    /\ 1 \in DOMAIN contexts[1].nodes
    /\ DOMAIN paths = {1}
    /\ active_path_id = None
    /\ current_context_id = 1
    /\ FirstNodeAccesses = 1

NextScenario ==
    \/ Tick
    \/ Cardinality(DOMAIN contexts) < 2 /\ CreateContext
    \/ \E relevance \in RelevanceValues :
         DOMAIN contexts = {1, 2} /\ DOMAIN contexts[1].nodes = {}
           /\ AddNode(1, 1, relevance)
    \/ \E relevance \in RelevanceValues :
         DOMAIN contexts = {1, 2} /\ DOMAIN contexts[1].nodes = {1}
           /\ AddNode(1, 2, relevance)
    \/ DOMAIN contexts = {1, 2} /\ DOMAIN contexts[1].nodes = {1, 2}
         /\ current_context_id = None /\ SwitchContext(1, << >>)
    \/ current_context_id = 1 /\ DOMAIN paths = {} /\ CreatePath
    \/ DOMAIN paths = {1} /\ active_path_id = None /\ FirstNodeAccesses = 0
         /\ StartRecordingPath(1)
    \/ active_path_id = 1 /\ current_context_id = 1 /\ FirstNodeAccesses = 0
         /\ SwitchContext(2, <<1>>)
    \/ active_path_id = 1 /\ current_context_id = 2 /\ SwitchContext(1, << >>)
    \/ active_path_id = 1 /\ current_context_id = 1 /\ FirstNodeAccesses = 1
         /\ StopRecordingPath
    \/ ScenarioDone /\ AnalyzeContextPatterns

SpecScenario == Init /\ [][NextScenario]_vars

(* ------------------------------ properties ----------------------------- *)
\* A call of switch_context that returns: the caller's, or one made by the
\* loop of replay_path.
SuccessfulSwitch ==
    \/ \E context_id \in DOMAIN contexts, carry_nodes \in CarryLists :
         SwitchContext(context_id, carry_nodes)
    \/ ReplayStep /\ error' = NoError

SameTransitions(S) ==
    \A p \in S : p \in DOMAIN paths' /\ paths'[p].transitions = paths[p].transitions

\* C1: every successful switch_context appends a transition iff recording is
\* active: while recording, exactly one new transition goes to the active path
\* and none to any other path; while idle, no path's transition list changes.
RecordsIffRecording ==
    [][SuccessfulSwitch =>
         IF active_path_id # None
         THEN /\ Len(paths'[active_path_id].transitions)
                   = Len(paths[active_path_id].transitions) + 1
              /\ IsPrefix(paths[active_path_id].transitions,
                          paths'[active_path_id].transitions)
              /\ SameTransitions(DOMAIN paths \ {active_path_id})
         ELSE SameTransitions(DOMAIN paths)]_vars

\* C1 happens: a switch was recorded on the active path while another path
\* stayed empty.
RecordedOnActiveOnly ==
    /\ active_path_id # None
    /\ current_context_id # None
    /\ Len(paths[active_path_id].transitions) >= 1
    /\ \E p \in DOMAIN paths : p # active_path_id /\ paths[p].transitions = << >>

\* C2: switch_context with an id that is no key of contexts raises, and leaves
\* current_context_id, the recording mode, every path's transitions and every
\* context's node map as they were.
UnknownContextChangesNothing ==
    [][\A context_id \in ContextIds \ DOMAIN contexts, carry_nodes \in CarryLists :
         SwitchContext(context_id, carry_nodes) =>
           /\ error' = ContextNotFound
           /\ current_context_id' = current_context_id
           /\ active_path_id' = active_path_id
           /\ DOMAIN paths' = DOMAIN paths
           /\ SameTransitions(DOMAIN paths)
           /\ DOMAIN contexts' = DOMAIN contexts
           /\ \A c \in DOMAIN contexts : contexts'[c].nodes = contexts[c].nodes]_vars

\* C2 happens: a switch to an unknown id has just failed while a path was
\* recording and the current context held a node.
UnknownContextRefused ==
    /\ error = ContextNotFound
    /\ active_path_id # None
    /\ current_context_id # None
    /\ DOMAIN contexts[current_context_id].nodes # {}
    /\ Len(paths[active_path_id].transitions) >= 1

TransitionsAppendOnly ==
    [][\A p \in DOMAIN paths :
         p \in DOMAIN paths' /\ IsPrefix(paths[p].transitions, paths'[p].transitions)]_vars

\* C4 happens: a path holds two different transitions.
PathWithTwoTransitions ==
    \E p \in DOMAIN paths :
        /\ Len(paths[p].transitions) = 2
        /\ paths[p].transitions[1] # paths[p].transitions[2]

\* C5: replay_path on a path that held k transitions when the call started
\* makes exactly k switches and then returns: it never makes more than k, and
\* once it has made k its loop is over.
ReplayMakesExactlyKSwitches ==
    replay.active =>
        /\ Len(replay.switched) <= replay.length
        /\ Len(replay.switched) = replay.length
             => replay.index >= Len(paths[replay.path_id].transitions)

\* C6: the i-th switch of a replay goes to the i-th transition's
\* to_context_id, the callback (when given) is called once after each switch
\* with the context switched to, and when the loop is over current_context_id
\* is the last transition's to_context_id, or what it was if there is none.
ReplayFollowsThePath ==
    replay.active =>
        LET transitions == paths[replay.path_id].transitions
        IN /\ replay.index = Len(replay.switched)
           /\ \A i \in DOMAIN replay.switched :
                replay.switched[i] = transitions[i].to_context_id
           /\ replay.called = IF replay.callback THEN replay.switched ELSE << >>
           /\ replay.index >= Len(transitions) =>
                current_context_id =
                    IF transitions = << >> THEN replay.before
                    ELSE transitions[Len(transitions)].to_context_id

\* C6 happens: a replay with a callback has made two switches to two
\* different contexts and is about to return.
ReplayedTwoSwitches ==
    /\ replay.active
    /\ replay.callback
    /\ Len(replay.switched) = 2
    /\ replay.switched[1] # replay.switched[2]
    /\ replay.index >= Len(paths[replay.path_id].transitions)

\* The fields the round trip of a context is compared on.
NodeFields(n) ==
    [access_count |-> n.access_count, last_accessed |-> n.last_accessed,
     relevance_score |-> n.relevance_score, notes |-> n.notes, flags |-> n.flags,
     alt_text |-> n.alt_text, priority |-> n.priority]

ContextFields(c) ==
    [id |-> c.id, name |-> c.name, description |-> c.description,
     focus_nodes |-> c.focus_nodes, relationships |-> c.relationships,
     priority_scheme |-> c.priority_scheme, tags |-> c.tags,
     accessibility_description |-> c.accessibility_description,
     nodes |-> [k \in DOMAIN c.nodes |-> NodeFields(c.nodes[k])]]

\* C7: Context.from_dict(ctx.to_dict()) is field-equal to ctx, for every
\* context the public operations build.
ContextRoundTrip ==
    \A c \in DOMAIN contexts :
        ContextFields(ContextFromDict(ContextToDict(contexts[c], heap)))
            = ContextFields(ContextView(contexts[c], heap))

\* C8: PathRoute.from_dict(path.to_dict()) is field-equal to path, for every
\* path built by recording switches.
PathRoundTrip ==
    \A p \in DOMAIN paths : PathFromDict(PathToDict(paths[p])) = paths[p]

\* C8 happens: a path recorded two transitions, one of them with carried ids.
RecordedPathWithCarry ==
    \E p \in DOMAIN paths :
        /\ Len(paths[p].transitions) = 2
        /\ \E i \in DOMAIN paths[p].transitions :
             paths[p].transitions[i].carried_nodes # << >>

\* The storage directory holds what save_data writes from the manager as it is.
SavedAsIs ==
    /\ disk.state.exists
    /\ disk = SavedDocuments(contexts, heap, paths, current_context_id,
                             active_path_id, disk.state.data.last_updated)

\* C9: a manager built on the directory save_data has just written has the
\* current_context_id, the recording mode, the context ids, the path ids and
\* every path's transitions of the manager that saved.
SavedStateIsRestored ==
    [][(SavedAsIs /\ Restart) =>
         /\ current_context_id' = current_context_id
         /\ active_path_id' = active_path_id
         /\ DOMAIN contexts' = DOMAIN contexts
         /\ DOMAIN paths' = DOMAIN paths
         /\ SameTransitions(DOMAIN paths)]_vars

\* C9 happens: a second manager was built from a saved directory and is
\* recording on a path that holds a transition.
RestoredWhileRecording ==
    /\ lifetime = 2
    /\ SavedAsIs
    /\ current_context_id # None
    /\ active_path_id # None
    /\ Len(paths[active_path_id].transitions) >= 1

\* C10: after the scenario the path holds exactly two transitions, the second
\* context holds the first node, and the analysis reports the pair
\* (second context, first context) once.
ScenarioOutcome ==
    ScenarioDone =>
        /\ Len(paths[1].transitions) = 2
        /\ 1 \in DOMAIN contexts[2].nodes
        /\ \E i \in DOMAIN AnalysisResult(paths).common_transitions :
             AnalysisResult(paths).common_transitions[i]
                 = [from |-> 2, to |-> 1, count |-> 1]

\* C10 happens: the scenario has run to its end.
ScenarioRan == ScenarioDone /\ DOMAIN contexts = {1, 2} /\ error = NoError

\* A call of switch_context for context_id that returns: the caller's, or the
\* one the loop of replay_path makes for its next transition.
SwitchedTo(context_id) ==
    \/ \E carry_nodes \in CarryLists : SwitchContext(context_id, carry_nodes)
    \/ /\ replay.active
       /\ replay.index < Len(paths[replay.path_id].transitions)
       /\ ReplayTarget(paths[replay.path_id], replay.index) = context_id
       /\ ReplayStep

\* C11: a transition built by switch_context goes from the current_context_id
\* of before the call to the requested id, and after the call the requested id
\* is current. Once current_context_id is set no operation of the manager
\* clears it, so a transition leaves from None only in the first successful
\* switch of the manager.
TransitionEndsAreCurrentAndRequested ==
    [][/\ \A context_id \in DOMAIN contexts :
            SwitchedTo(context_id) =>
              /\ current_context_id' = context_id
              /\ active_path_id # None =>
                   LET recorded == paths'[active_path_id].transitions
                       tr == recorded[Len(recorded)]
                   IN /\ tr.from_context_id = current_context_id
                      /\ tr.to_context_id = context_id
       /\ current_context_id # None => current_context_id' # None]_vars

\* C11 happens: the first recorded switch left from None, the second from the
\* context the first went to, to another context.
RecordedFromNoneThenFromCurrent ==
    \E p \in DOMAIN paths :
        /\ Len(paths[p].transitions) = 2
        /\ paths[p].transitions[1].from_context_id = None
        /\ paths[p].transitions[2].from_context_id = paths[p].transitions[1].to_context_id
        /\ paths[p].transitions[2].to_context_id # paths[p].transitions[2].from_context_id
        /\ current_context_id = paths[p].transitions[2].to_context_id

\* The step is a get_node that finds the node object r.
GetsNode(r) ==
    \E c \in DOMAIN contexts, k \in NodeIds :
        /\ k \in DOMAIN contexts[c].nodes
        /\ contexts[c].nodes[k] = r
        /\ GetNode(c, k)

\* C12: a node starts with access_count 0, every access (get_node) adds one to
\* it and nothing else changes it, and a recomputation under FREQUENCY sets
\* the priority to that count: after N accesses the priority is N.
FrequencyPriorityCountsAccesses ==
    [][/\ \A r \in DOMAIN heap' \ DOMAIN heap : heap'[r].access_count = 0
       /\ \A r \in DOMAIN heap \cap DOMAIN heap' :
            heap'[r].access_count
                = heap[r].access_count + (IF GetsNode(r) THEN 1 ELSE 0)
       /\ \A r \in DOMAIN heap :
            UpdatePriority(heap[r], FREQUENCY).priority = ToTenths(heap[r].access_count)
       /\ \A c \in DOMAIN contexts :
            (contexts[c].priority_scheme = FREQUENCY /\ TopNodes(c, 1)) =>
                \A k \in DOMAIN contexts[c].nodes :
                    heap'[contexts[c].nodes[k]].priority
                        = ToTenths(heap[contexts[c].nodes[k]].access_count)]_vars

\* C12 happens: a node accessed twice at time 1 holds priority 2.0 under
\* FREQUENCY (its RECENCY priority would be 1.0).
AccessedTwiceRankedByFrequency ==
    \E c \in DOMAIN contexts, k \in NodeIds :
        /\ k \in DOMAIN contexts[c].nodes
        /\ contexts[c].priority_scheme = FREQUENCY
        /\ heap[contexts[c].nodes[k]].access_count = 2
        /\ heap[contexts[c].nodes[k]].last_accessed = 1
        /\ heap[contexts[c].nodes[k]].priority = ToTenths(2)

\* The value of a node under one of the three schemes with a formula.
SchemeValue(node, scheme) ==
    CASE scheme = RECENCY -> ToTenths(node.last_accessed)
      [] scheme = FREQUENCY -> ToTenths(node.access_count)
      [] scheme = RELEVANCE -> node.relevance_score

\* C13: top_nodes(n) first gives every node of the context its value under
\* the context's scheme (RECENCY, FREQUENCY, RELEVANCE) as stored priority,
\* then returns min(n, node count) different nodes of the context in
\* descending order of priority, none of the others having a strictly higher
\* priority than a returned one.
TopNodesRanksThenSelects ==
    \A c \in DOMAIN contexts :
        LET ctx == contexts[c]
            hp == RankedHeap(heap, ctx)
        IN /\ ctx.priority_scheme \in {RECENCY, FREQUENCY, RELEVANCE} =>
                \A k \in DOMAIN ctx.nodes :
                    hp[ctx.nodes[k]].priority
                        = SchemeValue(heap[ctx.nodes[k]], ctx.priority_scheme)
           /\ \A order \in NodeOrders(ctx), n \in 0..(MaxNodeIds + 1) :
                LET result == TopNodesResult(ctx, hp, order, n)
                    returned == {result[i].node_id : i \in DOMAIN result}
                IN /\ Len(result) = (IF n < Cardinality(DOMAIN ctx.nodes)
                                     THEN n ELSE Cardinality(DOMAIN ctx.nodes))
                   /\ Cardinality(returned) = Len(result)
                   /\ returned \subseteq DOMAIN ctx.nodes
                   /\ \A i \in DOMAIN result :
                        result[i].priority = hp[ctx.nodes[result[i].node_id]].priority
                   /\ \A i \in DOMAIN result, j \in DOMAIN result :
                        i < j => result[i].priority >= result[j].priority
                   /\ \A k \in DOMAIN ctx.nodes \ returned, i \in DOMAIN result :
                        hp[ctx.nodes[k]].priority <= result[i].priority

\* C13 happens: top_nodes has ranked a context of two nodes under RELEVANCE,
\* which now hold the different priorities 0.5 and 0.0.
RankedTwoNodesByRelevance ==
    \E c \in DOMAIN contexts :
        /\ contexts[c].priority_scheme = RELEVANCE
        /\ DOMAIN contexts[c].nodes = {1, 2}
        /\ {heap[contexts[c].nodes[k]].priority : k \in {1, 2}} = {0, 5}

\* C14: top_nodes on a context whose scheme is CENTRALITY raises, and so does
\* recomputing a node's priority under CENTRALITY.
CentralityRankingRaises ==
    \A c \in DOMAIN contexts :
        (contexts[c].priority_scheme = CENTRALITY /\ DOMAIN contexts[c].nodes # {}) =>
            /\ TopNodesError(contexts[c], heap) # NoError
            /\ \A k \in DOMAIN contexts[c].nodes :
                 UpdatePriorityError(heap[contexts[c].nodes[k]], CENTRALITY) # NoError

\* C15: in every state a context whose priority_scheme is CUSTOM has a ranking
\* function attached: a set_priority_scheme(CUSTOM) without one raises and
\* leaves the scheme as it was.
CustomSchemeHasFunction ==
    \A c \in DOMAIN contexts :
        contexts[c].priority_scheme = CUSTOM => contexts[c].custom_priority_function

\* The positions, over all stored paths, where a transition to a is followed
\* by a transition to b; and the transitions, over all stored paths, to a.
PairPositions(a, b) ==
    {e \in UNION {{<<p, i>> : i \in 1..(Len(paths[p].transitions) - 1)} : p \in DOMAIN paths} :
        /\ paths[e[1]].transitions[e[2]].to_context_id = a
        /\ paths[e[1]].transitions[e[2] + 1].to_context_id = b}

\* The pairs (a, b) that occur at some position of some stored path.
StoredPairs ==
    {<<paths[p].transitions[i].to_context_id, paths[p].transitions[i + 1].to_context_id>> :
        <<p, i>> \in UNION {{<<q, j>> : j \in 1..(Len(paths[q].transitions) - 1)} :
                               q \in DOMAIN paths}}

VisitPositions(a) ==
    {e \in UNION {{<<p, i>> : i \in 1..Len(paths[p].transitions)} : p \in DOMAIN paths} :
        paths[e[1]].transitions[e[2]].to_context_id = a}

\* C16: the count common_transitions reports for a pair (a, b) is the number
\* of positions, over all stored paths, where a transition to a is followed by
\* one to b; the list holds at most 10 pairs in non-increasing order of count,
\* and no pair left out has a strictly higher count than a listed one.
CommonTransitionsCountPairs ==
    LET listed == AnalysisResult(paths).common_transitions
        keys == {<<listed[i].from, listed[i].to>> : i \in DOMAIN listed}
    IN /\ Len(listed) <= 10
       /\ \A i \in DOMAIN listed :
            /\ listed[i].count = Cardinality(PairPositions(listed[i].from, listed[i].to))
            /\ listed[i].count >= 1
       /\ \A i \in DOMAIN listed, j \in DOMAIN listed :
            i < j => listed[i].count >= listed[j].count
       /\ \A pair \in StoredPairs \ keys :
            /\ Len(listed) = 10
            /\ Cardinality(PairPositions(pair[1], pair[2])) <= listed[10].count

\* C16 happens: two stored paths hold more than ten different pairs, one of
\* them twice; the list is cut at ten with that pair first.
MoreThanTenPairsListed ==
    LET listed == AnalysisResult(paths).common_transitions
    IN /\ DOMAIN paths = {1, 2}
       /\ Len(paths[2].transitions) = 2
       /\ Len(listed) = 10
       /\ listed[1].count = 2
       /\ listed[10].count = 1
       /\ \E a \in DOMAIN contexts, b \in DOMAIN contexts :
            /\ PairPositions(a, b) # {}
            /\ \A i \in DOMAIN listed : <<a, b>> # <<listed[i].from, listed[i].to>>

\* C17: the visits frequent_contexts reports for a context id is the number
\* of transitions to it over all stored paths, recording or not; the list
\* holds at most 10 entries in non-increasing order of visits.
FrequentContextsCountVisits ==
    LET listed == AnalysisResult(paths).frequent_contexts
    IN /\ Len(listed) <= 10
       /\ \A i \in DOMAIN listed :
            /\ listed[i].visits = Cardinality(VisitPositions(listed[i].id))
            /\ listed[i].visits >= 1
       /\ \A i \in DOMAIN listed, j \in DOMAIN listed :
            i < j => listed[i].visits >= listed[j].visits

\* C17 happens: while path 1 records, a context visited on both stored paths
\* heads a list cut at ten entries.
VisitsOfBothPathsListed ==
    LET listed == AnalysisResult(paths).frequent_contexts
    IN /\ DOMAIN paths = {1, 2}
       /\ active_path_id = 1
       /\ Len(listed) = 10
       /\ listed[1].visits = 3
       /\ \E i \in DOMAIN paths[2].transitions :
            paths[2].transitions[i].to_context_id = listed[1].id
       /\ \E i \in DOMAIN paths[1].transitions :
            paths[1].transitions[i].to_context_id = listed[1].id

\* The cycles the analysis reports for the stored path p.
ReportedCycles(p) ==
    SelectSeq(AnalysisResult(paths).cycles, LAMBDA c : c.path_id = paths[p].id)

\* C18: for a path that visits [a, b, a, b] the analysis reports exactly one
\* cycle, of length 2 with contexts [a, b]; for a path that makes three visits
\* it reports none.
CycleOfTwoDetected ==
    \A p \in DOMAIN paths :
        LET S == ContextSequence(paths[p])
        IN /\ (Len(S) = 4 /\ S[1] = S[3] /\ S[2] = S[4]) =>
                /\ Len(ReportedCycles(p)) = 1
                /\ ReportedCycles(p)[1].cycle_length = 2
                /\ ReportedCycles(p)[1].contexts = <<S[1], S[2]>>
           /\ Len(S) = 3 => ReportedCycles(p) = << >>

\* C18 happens: the first path visits [a, b, a, b] with a # b, the second
\* makes two visits, and one cycle is reported.
VisitedABAB ==
    /\ DOMAIN paths = {1, 2}
    /\ Len(paths[2].transitions) = 2
    /\ LET S == ContextSequence(paths[1])
       IN Len(S) = 4 /\ S[1] = S[3] /\ S[2] = S[4] /\ S[1] # S[2]
    /\ Len(AnalysisResult(paths).cycles) = 1

\* C19: for a path that visits [a, a] the analysis reports a cycle of length 1
\* with contexts [a].
CycleOfOneDetected ==
    \A p \in DOMAIN paths :
        LET S == ContextSequence(paths[p])
        IN (Len(S) = 2 /\ S[1] = S[2]) =>
              \E i \in DOMAIN ReportedCycles(p) :
                  /\ ReportedCycles(p)[i].cycle_length = 1
                  /\ ReportedCycles(p)[i].contexts = <<S[1]>>

\* C20: the similarity score of two stored contexts is the size of the
\* intersection of their node-id sets over the size of the union, 0 when both
\* sets are empty; so it is 1 for equal non-empty sets and 0 for disjoint
\* non-empty sets.
SimilarityIsIntersectionOverUnion ==
    \A id1 \in DOMAIN contexts, id2 \in DOMAIN contexts :
        LET nodes1 == DOMAIN contexts[id1].nodes
            nodes2 == DOMAIN contexts[id2].nodes
            score == SimilarityScore(contexts[id1], contexts[id2])
        IN /\ score.den > 0
           /\ score.num * Cardinality(nodes1 \cup nodes2)
                = Cardinality(nodes1 \cap nodes2) * score.den
           /\ (nodes1 = {} /\ nodes2 = {}) => score.num = 0
           /\ (nodes1 = nodes2 /\ nodes1 # {}) => score.num = score.den
           /\ (nodes1 \cap nodes2 = {} /\ nodes1 # {} /\ nodes2 # {}) => score.num = 0

\* C20 happens: two contexts share one node of the two they hold, a
\* comparison has updated the shared node, and the score is one half.
ComparedOverlappingContexts ==
    /\ DOMAIN contexts = {1, 2}
    /\ DOMAIN contexts[1].nodes = {1}
    /\ DOMAIN contexts[2].nodes = {1, 2}
    /\ contexts[1].nodes[1] = contexts[2].nodes[1]
    /\ heap = ComparedHeap(heap, contexts[1], contexts[2])
    /\ SimilarityScore(contexts[1], contexts[2]) = [num |-> 1, den |-> 2]

\* The priority update_priority gives the node under the scheme.
PriorityUnder(node, scheme) == UpdatePriority(node, scheme).priority

\* C21: for two stored contexts with ranking schemes, a node id they share is
\* listed in priority_differences exactly when the node's priority under
\* context 1's scheme and its priority under context 2's scheme differ by more
\* than 0.1, and the listed record holds these two priorities; this also for a
\* node carried from one context to the other.
PriorityDifferencesPerContextScheme ==
    \A id1 \in DOMAIN contexts, id2 \in DOMAIN contexts :
        LET ctx1 == contexts[id1]
            ctx2 == contexts[id2]
            listed == PriorityDifferences(heap, ctx1, ctx2)
        IN (ctx1.priority_scheme \in RankingSchemes /\ ctx2.priority_scheme \in RankingSchemes) =>
             /\ Len(listed) <= 10
             /\ \A k \in (DOMAIN ctx1.nodes) \cap (DOMAIN ctx2.nodes) :
                  LET p1 == PriorityUnder(heap[ctx1.nodes[k]], ctx1.priority_scheme)
                      p2 == PriorityUnder(heap[ctx2.nodes[k]], ctx2.priority_scheme)
                  IN /\ (Abs(p1 - p2) > SignificantDifference) <=>
                           \E i \in DOMAIN listed : listed[i].node_id = k
                     /\ \A i \in DOMAIN listed :
                           listed[i].node_id = k =>
                               /\ listed[i].ctx1_priority = p1
                               /\ listed[i].ctx2_priority = p2

\* C22: replay_path with an unknown path id and compare_contexts with an
\* unknown context id raise their error and change nothing: no replay starts,
\* and the current context, the paths, the contexts and every node are as they
\* were.
UnknownIdsChangeNothing ==
    [][/\ \A path_id \in PathIds \ DOMAIN paths, callback \in BOOLEAN :
            ReplayPath(path_id, callback) =>
                /\ error' = PathNotFound
                /\ ~replay'.active
                /\ UNCHANGED <<current_context_id, paths, contexts, heap, active_path_id>>
       /\ \A id1 \in ContextIds, id2 \in ContextIds :
            ((id1 \notin DOMAIN contexts \/ id2 \notin DOMAIN contexts)
                /\ CompareContexts(id1, id2)) =>
                /\ error' = ContextsNotFound
                /\ UNCHANGED <<current_context_id, paths, contexts, heap, active_path_id>>]_vars

\* C22 happens: a replay of an unknown path has just been refused (no other
\* step of this specification raises the error) while a context is current, a
\* path holds a transition, and a node's stored priority is not the one its
\* context's scheme gives.
UnknownPathRefused ==
    /\ error = PathNotFound
    /\ current_context_id # None
    /\ \E p \in DOMAIN paths : Len(paths[p].transitions) >= 1
    /\ \E c \in DOMAIN contexts : \E k \in DOMAIN contexts[c].nodes :
          heap[contexts[c].nodes[k]].priority
              # UpdatePriority(heap[contexts[c].nodes[k]], contexts[c].priority_scheme).priority

\* C23: the recording mode is idle or names a path the manager holds;
\* start_recording_path(p) with a known p makes it recording(p), with an
\* unknown p raises and leaves it as it was; stop_recording_path makes it idle.
RecordingModeIsIdleOrKnownPath ==
    /\ [](active_path_id = None \/ active_path_id \in DOMAIN paths)
    /\ [][/\ \A path_id \in PathIds :
               StartRecordingPath(path_id) =>
                   IF path_id \in DOMAIN paths
                   THEN active_path_id' = path_id /\ error' = NoError
                   ELSE active_path_id' = active_path_id /\ error' = PathNotFound
          /\ StopRecordingPath => active_path_id' = None]_vars

\* C23 happens: a manager built from a saved directory is recording, and a
\* start_recording_path on an unknown path has just been refused.
UnknownPathNotRecorded ==
    /\ lifetime = 2
    /\ error = PathNotFound
    /\ active_path_id # None
    /\ active_path_id \in DOMAIN paths

\* The stored contexts whose scheme name PriorityType does not have.
UnknownSchemeContexts ==
    IF disk.contexts.exists
    THEN {k \in DOMAIN disk.contexts.data :
            disk.contexts.data[k].priority_scheme \notin SchemeNames}
    ELSE {}

\* C24: building a manager on stored contexts of which one has a scheme name
\* that is none of the five fails with an error, and no manager holds that
\* context.
UnknownSchemeNameFailsLoad ==
    [][(Restart /\ UnknownSchemeContexts # {}) =>
          /\ error' = SchemeNameUnknown
          /\ \A k \in UnknownSchemeContexts : k \notin DOMAIN contexts']_vars

\* C24 happens: the constructor has raised on a directory that stores one
\* context with a known scheme name and one with an unknown name.
LoadOfUnknownSchemeRaised ==
    /\ lifetime = 2
    /\ error = SchemeNameUnknown
    /\ Cardinality(DOMAIN disk.contexts.data) = 2
    /\ Cardinality(UnknownSchemeContexts) = 1

\* C25: an import into the current context puts every row that holds a node
\* into the context, whatever rows of the result fail.
ImportSkipsFailingRows ==
    [][\A rows \in RowLists :
          (current_context_id # None /\ ImportFromGraphModule(rows)) =>
              \A i \in DOMAIN rows :
                  rows[i] # BadRow => rows[i] \in DOMAIN contexts'[current_context_id].nodes]_vars

\* The stored priority of the node is the one FREQUENCY gives and not the one
\* RECENCY or RELEVANCE gives: the scheme last applied to it was FREQUENCY.
LastRankedByFrequency(node) ==
    /\ node.priority = ToTenths(node.access_count)
    /\ node.priority # ToTenths(node.last_accessed)
    /\ node.priority # node.relevance_score

\* C26: get_node on a node that is found adds one to its access_count, sets
\* its last_accessed to the time of the call, and recomputes its priority
\* under the scheme last applied to it: for a node of a FREQUENCY context last
\* ranked by frequency, the new priority is the new access_count.
GetNodeKeepsLastScheme ==
    [][\A c \in DOMAIN contexts, node_id \in NodeIds :
          (/\ node_id \in DOMAIN contexts[c].nodes
           /\ contexts[c].priority_scheme = FREQUENCY
           /\ LastRankedByFrequency(heap[contexts[c].nodes[node_id]])
           /\ GetNode(c, node_id))
          => LET ref == contexts[c].nodes[node_id]
             IN /\ heap'[ref].access_count = heap[ref].access_count + 1
                /\ heap'[ref].last_accessed = now
                /\ heap'[ref].priority = ToTenths(heap'[ref].access_count)]_vars

\* C27: for every window length L from 2 up to and including
\* min(10, len(S) // 2), a path in whose sequence S some run of length L
\* repeats at once has a cycle of length L reported.
EveryWindowLengthExamined ==
    \A p \in DOMAIN paths :
        LET S == ContextSequence(paths[p])
        IN \A L \in 2..Min(10, Len(S) \div 2) :
              RepeatsAt(S, L) # {} =>
                  \E j \in DOMAIN ReportedCycles(p) : ReportedCycles(p)[j].cycle_length = L

\* C28: the cycles reported for a path have different lengths, and each holds,
\* in contexts, the cycle_length visits from the smallest start index at which
\* a run of that length repeats at once.
OneCyclePerLengthAtFirstRepeat ==
    \A p \in DOMAIN paths :
        LET S == ContextSequence(paths[p])
            found == ReportedCycles(p)
        IN /\ \A j1 \in DOMAIN found, j2 \in DOMAIN found :
                found[j1].cycle_length = found[j2].cycle_length => j1 = j2
           /\ \A j \in DOMAIN found :
                LET L == found[j].cycle_length
                IN /\ Len(found[j].contexts) = L
                   /\ RepeatsAt(S, L) # {}
                   /\ \E i \in RepeatsAt(S, L) :
                        /\ \A k \in RepeatsAt(S, L) : i <= k
                        /\ found[j].contexts = SubSeq(S, i + 1, i + L)

\* C28 happens: in the first path a run of length 2 repeats at two start
\* indices with different visits, and one cycle of length 2 is reported.
RunRepeatsAtTwoStarts ==
    /\ 1 \in DOMAIN paths
    /\ LET S == ContextSequence(paths[1])
       IN /\ Cardinality(RepeatsAt(S, 2)) >= 2
          /\ \E i \in RepeatsAt(S, 2), k \in RepeatsAt(S, 2) :
                SubSeq(S, i + 1, i + 2) # SubSeq(S, k + 1, k + 2)
    /\ Cardinality({j \in DOMAIN ReportedCycles(1) : ReportedCycles(1)[j].cycle_length = 2}) = 1

\* C29: every id in the carried_nodes of a transition a switch records was a
\* key of the node map of the context the switch left, and is a key of the node
\* map of the context it entered.
CarriedNodesWereMoved ==
    [][\A target \in DOMAIN contexts, carry_nodes \in CarryLists :
          (active_path_id # None /\ SwitchContext(target, carry_nodes)) =>
              LET recorded == paths'[active_path_id].transitions
                  tr == recorded[Len(recorded)]
              IN \A i \in DOMAIN tr.carried_nodes :
                    /\ current_context_id \in DOMAIN contexts
                    /\ tr.carried_nodes[i] \in DOMAIN contexts[current_context_id].nodes
                    /\ tr.carried_nodes[i] \in DOMAIN contexts'[target].nodes]_vars

\* C30: the node count and the focus count the accessibility description of
\* every stored context states are the size of its node map and the length of
\* its focus list.
DescriptionStatesCurrentCounts ==
    \A c \in DOMAIN contexts :
        /\ contexts[c].accessibility_description.nodes
             = Cardinality(DOMAIN contexts[c].nodes)
        /\ contexts[c].accessibility_description.focus = Len(contexts[c].focus_nodes)

\* C30 happens: a context holds a node carried from another context and a
\* node of its own, a focus list of one id and a relationship.
DescribedAfterCarryAndFocus ==
    \E c \in DOMAIN contexts, d \in DOMAIN contexts :
        /\ c # d
        /\ Cardinality(DOMAIN contexts[c].nodes) = 2
        /\ \E k \in DOMAIN contexts[c].nodes :
              k \in DOMAIN contexts[d].nodes /\ contexts[c].nodes[k] = contexts[d].nodes[k]
        /\ Len(contexts[c].focus_nodes) = 1
        /\ DOMAIN contexts[c].relationships # {}
        /\ contexts[c].accessibility_description.nodes = 2
        /\ contexts[c].accessibility_description.focus = 1

\* C31: set_focus(ids) on a stored context makes its focus list exactly ids
\* and raises nothing, whether or not the ids are keys of its node map; the
\* node map and the node objects are as they were.
SetFocusStoresTheIdsGiven ==
    [][\A c \in DOMAIN contexts, node_ids \in FocusLists :
          SetFocus(c, node_ids) =>
              /\ contexts'[c].focus_nodes = node_ids
              /\ error' = NoError
              /\ contexts'[c].nodes = contexts[c].nodes
              /\ heap' = heap]_vars

\* C31 happens: a context that holds a node has a focus list that names an id
\* it holds no node for.
DanglingFocusStored ==
    \E c \in DOMAIN contexts :
        /\ error = NoError
        /\ DOMAIN contexts[c].nodes # {}
        /\ \E i \in DOMAIN contexts[c].focus_nodes :
              contexts[c].focus_nodes[i] \notin DOMAIN contexts[c].nodes
        /\ contexts[c].accessibility_description.focus_text = << >>

\* C32: the host lets one request at a time into switch_context, and so in
\* every path each recorded transition leaves the context the transition
\* recorded before it entered.
HostSwitchesAreSerialized ==
    /\ \A t1 \in RequestIds, t2 \in RequestIds :
          t1 # t2 => requests[t1].pc = "idle" \/ requests[t2].pc = "idle"
    /\ \A p \in DOMAIN paths : \A i \in 2..Len(paths[p].transitions) :
          paths[p].transitions[i].from_context_id
              = paths[p].transitions[i - 1].to_context_id

\* C33: in every stored path, each transition after the first leaves the
\* context the transition stored before it entered.
StoredTransitionsFormAChain ==
    \A p \in DOMAIN paths :
        LET recorded == paths[p].transitions
        IN \A i \in DOMAIN recorded :
              i > 1 => recorded[i].from_context_id = recorded[i - 1].to_context_id

\* C34: a switch_context that succeeds leaves every context but the target as
\* it was, the source's last_accessed included, and leaves the access_count
\* and the last_accessed of every node, carried or not, as they were.
SwitchLeavesNodesAndSourceAlone ==
    [][\A target \in DOMAIN contexts, carry_nodes \in CarryLists :
          SwitchContext(target, carry_nodes) =>
              /\ \A c \in DOMAIN contexts : c # target => contexts'[c] = contexts[c]
              /\ \A r \in (DOMAIN heap) \cap (DOMAIN heap') :
                    /\ heap'[r].access_count = heap[r].access_count
                    /\ heap'[r].last_accessed = heap[r].last_accessed]_vars

\* C35: the current context of a manager that started empty is none or a
\* stored context, and once it is a context it is never none again.
CurrentContextIsStoredAndStays ==
    /\ [](current_context_id = None \/ current_context_id \in DOMAIN contexts)
    /\ [][current_context_id # None => current_context_id' # None]_vars

\* C35 happens: with a current context, a call on an unknown path has just
\* failed, after a switch that was recorded.
FailedCallKeepsCurrentContext ==
    /\ error = PathNotFound
    /\ current_context_id # None
    /\ Cardinality(DOMAIN contexts) = 2
    /\ \E p \in DOMAIN paths : Len(paths[p].transitions) >= 1

\* C36: every transition stored in a path of a manager that started empty
\* enters a stored context, and so no step of a replay raises the
\* unknown-context error.
StoredTransitionsEnterStoredContexts ==
    /\ [](\A p \in DOMAIN paths : \A i \in DOMAIN paths[p].transitions :
              paths[p].transitions[i].to_context_id \in DOMAIN contexts)
    /\ [][ReplayStep => error' # ContextNotFound]_vars

\* C36 happens: a replay of a path of two transitions is part-way through,
\* one switch made and none refused.
ReplayPartWayThrough ==
    /\ replay.active
    /\ replay.index = 1
    /\ Len(replay.switched) = 1
    /\ Len(paths[replay.path_id].transitions) = 2
    /\ error = NoError

\* C37: a manager built on a saved directory holds, for every stored context,
\* the node ids that were saved, and every (context, node id) has a node object
\* of its own: an access to the node of one context leaves the access_count
\* read through any other context as it is.
ReloadedNodesAreIndependent ==
    [][(Restart /\ disk.contexts.exists) =>
          /\ \A c \in DOMAIN disk.contexts.data :
                DOMAIN contexts'[c].nodes = DOMAIN disk.contexts.data[c].nodes
          /\ \A c \in DOMAIN contexts', d \in DOMAIN contexts' :
                \A k \in (DOMAIN contexts'[c].nodes) \cap (DOMAIN contexts'[d].nodes) :
                    c # d =>
                        LET accessed == [heap' EXCEPT ![contexts'[c].nodes[k]] = Access(@, now)]
                        IN accessed[contexts'[d].nodes[k]].access_count
                             = heap'[contexts'[d].nodes[k]].access_count]_vars

\* C37 happens: in a manager built from a saved directory, a node id that two
\* contexts shared when they were saved has been accessed through one of them
\* only.
ReloadedNodeAccessedInOneContext ==
    /\ lifetime = 2
    /\ disk.contexts.exists
    /\ DOMAIN contexts = {1, 2}
    /\ 1 \in DOMAIN contexts[1].nodes
    /\ 1 \in DOMAIN contexts[2].nodes
    /\ DOMAIN disk.contexts.data = {1, 2}
    /\ 1 \in DOMAIN disk.contexts.data[1].nodes
    /\ 1 \in DOMAIN disk.contexts.data[2].nodes
    /\ disk.contexts.data[1].nodes[1].metadata.access_count
         = disk.contexts.data[2].nodes[1].metadata.access_count
    /\ heap[contexts[1].nodes[1]].access_count # heap[contexts[2].nodes[1]].access_count

\* C38: for any two stored contexts the counts compare_contexts reports add up
\* to the size of the union of the two node-id sets, and the comparison in the
\* other order reports the same common_nodes and similarity_score with
\* only_in_ctx1 and only_in_ctx2 exchanged.
ComparisonCountsPartitionTheUnion ==
    \A id1 \in DOMAIN contexts, id2 \in DOMAIN contexts :
        LET counts == NodeCounts(contexts[id1], contexts[id2])
            swapped == NodeCounts(contexts[id2], contexts[id1])
        IN /\ counts.common_nodes + counts.only_in_ctx1 + counts.only_in_ctx2
                = Cardinality((DOMAIN contexts[id1].nodes) \cup (DOMAIN contexts[id2].nodes))
           /\ swapped.common_nodes = counts.common_nodes
           /\ swapped.only_in_ctx1 = counts.only_in_ctx2
           /\ swapped.only_in_ctx2 = counts.only_in_ctx1
           /\ SimilarityScore(contexts[id2], contexts[id1])
                = SimilarityScore(contexts[id1], contexts[id2])

\* C38 happens: the first context holds two nodes and the second one of them,
\* the two have been compared, and the counts are 1, 1 and 0 in one order and
\* 1, 0 and 1 in the other.
ComparedInBothOrders ==
    /\ DOMAIN contexts = {1, 2}
    /\ DOMAIN contexts[1].nodes = {1, 2}
    /\ DOMAIN contexts[2].nodes = {2}
    /\ error = NoError
    /\ heap = ComparedHeap(heap, contexts[1], contexts[2])
    /\ heap = ComparedHeap(heap, contexts[2], contexts[1])
    /\ NodeCounts(contexts[1], contexts[2])
         = [common_nodes |-> 1, only_in_ctx1 |-> 1, only_in_ctx2 |-> 0]
    /\ NodeCounts(contexts[2], contexts[1])
         = [common_nodes |-> 1, only_in_ctx1 |-> 0, only_in_ctx2 |-> 1]

====
